---- MODULE Spec2Model ----
(***************************************************************************)
(* Model of the acquisition engine of TorrentCLI:                          *)
(*   - GoTorrentAPI._make_request and the search operations                *)
(*     (src/zil_api_client.py),                                            *)
(*   - download_with_progress, find_torrent_by_name and                    *)
(*     download_direct_file (src/torrent_cli.py, src/yarr.py),             *)
(*   - fetch and the background threads schedule_runner and                *)
(*     health_monitor (src/torrent_cli.py, src/yarr.py).                   *)
(***************************************************************************)
EXTENDS Integers, Sequences, FiniteSets, TLC

VARIABLES
    \* ---- GoTorrentAPI._make_request ----
    tpc,        \* position of the request: "start", "responded", "done"
    script,     \* what the server will answer to the successive attempts
    response,   \* the answer to the attempt being handled
    attempts,   \* number of session.request calls made
    outcome,    \* [kind, carries]: the returned response or the raised APIError
    session,    \* self.session: [id, stale], id counts the Session objects
                \* the client has made, stale is whether a connection
                \* failure was met on this one
    \* ---- search operations ----
    spc,        \* "call", "loop", "done"
    op,         \* which search operation runs
    items,      \* data.get("results", [])
    idx,        \* loop position in items
    results,    \* the list the operation builds
    raised,     \* an exception escaped the operation
    \* ---- download_with_progress ----
    dpc,        \* position in download_with_progress
    item,       \* the dict handed to download_with_progress
    cfg,        \* the loaded configuration
    qb,         \* the daemon: [list, registered]
    calls,      \* calls made: active is the number of active downloads the
                \* daemon reported; add, locate, status, delete count the
                \* daemon calls, rejected those of the add calls that
                \* raised; resolve, get, confirm count the calls of
                \* get_download_url, requests.get and Confirm.ask
    task_hash,  \* the handle find_torrent_by_name returned, "" for None
    info,       \* the last status observation: [progress, state]
    finished,   \* progress.finished of the rich progress bar
    ending,     \* how the task ended, "" while it runs
    \* ---- download_direct_file ----
    server,     \* the mirror: [total, ranged]
    disk0,      \* the destination file before the download
    disk,       \* the destination file: [exists, segs]
    retry_count,
    downloaded_size,
    headers,    \* the offset of the Range header, -1 without one
    resp,       \* the response being streamed: [status, lo, hi]
    total_size,
    wire,       \* the byte ranges received from the mirror, in order
    download_url_info, \* what get_download_url returned: its download_url and
                \* its mirror, "" for one it does not give (Unbound before)
    \* ---- shared ----
    history,    \* the entries of history.json
    sleepLog,   \* arguments of the time.sleep calls made, in order
    \* ---- schedule_runner ----
    rpc,        \* position of the thread: "off", "tick", "for", "fetch",
                \* "got", "dead" (an exception left the thread)
    schedFile,  \* the records of schedule.json
    sched,      \* the list the tick loaded
    task,       \* position of "for task in sched"
    fetched,    \* what fetch returned for the record
    updated,
    submitted,  \* the positions of the records whose first result was
                \* handed to qb.torrents_add, in order
    now,        \* the clock, in ticks of the runner
    saves,      \* the save_json(SCHEDULE, sched) calls the runner made
    searches,   \* the fetch calls the runner made
    \* ---- schedule_add and schedule_remove ----
    fpc,        \* position of the command of the foreground: "none" (no
                \* schedule command), "start", "add", "remove", "done"
    fsched,     \* the list the command loaded
    \* ---- the search commands and download ----
    cmd,        \* [name, index]: the search command that ran and the index
                \* given to download (0 before)
    last,       \* the list in last.json
    \* ---- health_monitor ----
    hpc,        \* position of the thread: "off", "tick", "daemon", "notify",
                \* "probe", "sleep", "dead" (an exception left the thread)
    program,    \* whose health_monitor runs: "torrent_cli" or "yarr"
    probes,     \* what the probes of the tick did, [api, daemon]: "ok",
                \* "unhealthy" (an answer that is not healthy), "raises",
                \* "none" (not made)
    is_healthy,
    notified,   \* the tick launched notify-send
    hticks      \* ticks the monitor completed

transportVars == <<tpc, script, response, attempts, outcome, session>>
searchVars == <<spc, op, items, idx, results, raised>>
torrentVars == <<dpc, item, cfg, qb, calls, task_hash, info, finished, ending>>
directVars == <<server, disk0, disk, retry_count, downloaded_size, headers, resp,
                total_size, wire, download_url_info>>
runnerVars == <<rpc, schedFile, sched, task, fetched, updated, submitted, now, saves,
                searches>>
foregroundVars == <<fpc, fsched, cmd, last>>
monitorVars == <<hpc, program, probes, is_healthy, notified, hticks>>
backgroundVars == <<rpc, schedFile, sched, task, fetched, updated, submitted, now, saves,
                    searches, fpc, fsched, cmd, last,
                    hpc, program, probes, is_healthy, notified, hticks>>
vars == <<tpc, script, response, attempts, outcome, session,
          spc, op, items, idx, results, raised,
          dpc, item, cfg, qb, calls, task_hash, info, finished, ending,
          server, disk0, disk, retry_count, downloaded_size, headers, resp,
          total_size, wire, download_url_info,
          history, sleepLog,
          rpc, schedFile, sched, task, fetched, updated, submitted, now, saves,
          searches, fpc, fsched, cmd, last,
          hpc, program, probes, is_healthy, notified, hticks>>

----------------------------------------------------------------------------
\* Bounds

\* longest scripted sequence of server answers
MaxScript == 3
\* longest result array returned by the aggregator
MaxItems == 3

----------------------------------------------------------------------------
\* GoTorrentAPI._make_request

Statuses == {200, 400, 404, 429, 500, 503}

Http(code) == [kind |-> "http", status |-> code]
Exc(name) == [kind |-> name, status |-> 0]

\* what one session.request call can produce: a response with a status, or
\* one of the requests exceptions
Answers ==
    {Http(c) : c \in Statuses}
        \cup {Exc(n) : n \in {"ConnectionError", "ConnectTimeout",
                              "ReadTimeout", "RequestException"}}

RECURSIVE SeqsUpTo(_, _)
SeqsUpTo(S, n) ==
    IF n = 0 THEN {<< >>}
    ELSE LET shorter == SeqsUpTo(S, n - 1)
         IN shorter \cup {Append(s, x) : s \in {t \in shorter : Len(t) = n - 1}, x \in S}

Scripts == {s \in SeqsUpTo(Answers, MaxScript) : Len(s) >= 1}

\* response.raise_for_status(): HTTPError for 4xx and 5xx
raise_for_status(r) == r.kind = "http" /\ r.status >= 400 /\ r.status < 600

NoOutcome == [kind |-> "none", carries |-> "none"]

\* the except requests.HTTPError branch with 404 and other 4xx confused
HTTPErrorBranch_No404(status) ==
    IF status >= 500
    THEN [kind |-> "ServerError", carries |-> "status"]
    ELSE [kind |-> "ClientError", carries |-> "status"]

\* the except requests.HTTPError branch treating 5xx like any other status
HTTPErrorBranch_No5xx(status) ==
    IF status = 404
    THEN [kind |-> "NotFound", carries |-> "path"]
    ELSE [kind |-> "ClientError", carries |-> "status"]

\* the except requests.HTTPError branch
HTTPErrorBranch(status) ==
    IF status = 404
    THEN [kind |-> "NotFound", carries |-> "path"]
    ELSE IF status >= 500
    THEN [kind |-> "ServerError", carries |-> "status"]
    ELSE [kind |-> "ClientError", carries |-> "status"]

\* the chain of except clauses without the requests.Timeout clause
ExceptChain_NoTimeout(r) ==
    IF r.kind = "http" THEN HTTPErrorBranch(r.status)
    ELSE IF r.kind \in {"ConnectionError", "ConnectTimeout"}
    THEN [kind |-> "ConnectionFailed", carries |-> "base_url"]
    ELSE [kind |-> "RequestFailed", carries |-> "exception"]

\* the chain of except clauses, in source order; ConnectTimeout is both a
\* ConnectionError and a Timeout and is caught by the first of the two
ExceptChain(r) ==
    IF r.kind = "http" THEN HTTPErrorBranch(r.status)
    ELSE IF r.kind \in {"ConnectionError", "ConnectTimeout"}
    THEN [kind |-> "ConnectionFailed", carries |-> "base_url"]
    ELSE IF r.kind = "ReadTimeout"
    THEN [kind |-> "TimedOut", carries |-> "timeout"]
    ELSE [kind |-> "RequestFailed", carries |-> "exception"]

\* self.session = requests.Session() in __init__
NewSession == [id |-> 1, stale |-> FALSE]

\* self.session.request(method, url, **kwargs)
SessionRequest ==
    /\ tpc = "start"
    /\ attempts' = attempts + 1
    /\ response' = script[attempts + 1]
    /\ tpc' = "responded"
    /\ UNCHANGED <<script, outcome, session, sleepLog, history>>
    /\ UNCHANGED searchVars
    /\ UNCHANGED torrentVars
    /\ UNCHANGED directVars
    /\ UNCHANGED backgroundVars

\* the except clauses with a requests.ConnectionError clause that makes a
\* new Session for the client
HandleResponse_NewSession ==
    /\ tpc = "responded"
    /\ outcome' = IF response.kind = "http" /\ ~raise_for_status(response)
                  THEN [kind |-> "ok", carries |-> "response"]
                  ELSE ExceptChain(response)
    /\ session' = IF response.kind \in {"ConnectionError", "ConnectTimeout"}
                  THEN [id |-> session.id + 1, stale |-> FALSE]
                  ELSE session
    /\ tpc' = "done"
    /\ UNCHANGED <<script, response, attempts, sleepLog, history>>
    /\ UNCHANGED searchVars
    /\ UNCHANGED torrentVars
    /\ UNCHANGED directVars
    /\ UNCHANGED backgroundVars

\* raise_for_status, return response, or one of the except clauses; every
\* clause raises APIError, none loops back to session.request
HandleResponse ==
    /\ tpc = "responded"
    /\ outcome' = IF response.kind = "http" /\ ~raise_for_status(response)
                  THEN [kind |-> "ok", carries |-> "response"]
                  ELSE ExceptChain(response)
    /\ session' = IF response.kind \in {"ConnectionError", "ConnectTimeout"}
                  THEN [session EXCEPT !.stale = TRUE]
                  ELSE session
    /\ tpc' = "done"
    /\ UNCHANGED <<script, response, attempts, sleepLog, history>>
    /\ UNCHANGED searchVars
    /\ UNCHANGED torrentVars
    /\ UNCHANGED directVars
    /\ UNCHANGED backgroundVars

TransportIdle ==
    /\ tpc = "start" /\ response = Http(0) /\ attempts = 0 /\ outcome = NoOutcome
    /\ session = NewSession

\* no acquisition runs
NoItem ==
    [DownloadType |-> "TORRENT", MagnetUri |-> << >>, Link |-> << >>, Title |-> << >>,
     title |-> << >>, md5 |-> "", source |-> ""]
NoInfo == [progress |-> 0, state |-> "initializing"]
NoCalls == [active |-> 0, add |-> 0, rejected |-> 0, locate |-> 0, status |-> 0,
            delete |-> 0, resolve |-> 0, get |-> 0, confirm |-> 0]

TorrentIdle ==
    /\ dpc = "idle" /\ item = NoItem
    /\ cfg = [max_active_downloads |-> 5, auto_remove_completed |-> FALSE]
    /\ qb = [list |-> << >>, registered |-> FALSE]
    /\ calls = NoCalls /\ task_hash = "" /\ info = NoInfo
    /\ finished = FALSE /\ ending = ""

NoFile == [exists |-> FALSE, segs |-> << >>]
NoResp == [status |-> 0, lo |-> 0, hi |-> 0]
\* download_url_info before api.get_download_url has returned
Unbound == [download_url |-> "unbound", mirror |-> "unbound"]

DirectIdle ==
    /\ server = [total |-> 0, ranged |-> TRUE]
    /\ disk0 = NoFile /\ disk = NoFile
    /\ retry_count = 0 /\ downloaded_size = 0 /\ headers = -1
    /\ resp = NoResp /\ total_size = 0 /\ wire = << >>
    /\ download_url_info = Unbound

SearchIdle ==
    /\ spc = "call" /\ op = "search" /\ items = << >>
    /\ idx = 1 /\ results = << >> /\ raised = FALSE

\* the foreground runs no schedule command
NoCommand ==
    /\ fpc = "none" /\ fsched = << >>
    /\ cmd = [name |-> "none", index |-> 0] /\ last = << >>

\* the thread of schedule_runner is not started
RunnerIdle ==
    /\ rpc = "off" /\ schedFile = << >> /\ sched = << >> /\ task = 1
    /\ fetched = << >> /\ updated = FALSE /\ submitted = << >> /\ now = 0
    /\ saves = 0 /\ searches = 0

NoProbes == [api |-> "none", daemon |-> "none"]

\* the thread of health_monitor is not started
MonitorIdle ==
    /\ hpc = "off" /\ program = "torrent_cli" /\ probes = NoProbes
    /\ is_healthy = TRUE /\ notified = FALSE /\ hticks = 0

InitTransport ==
    /\ TransportIdle
    /\ script \in Scripts
    /\ SearchIdle
    /\ TorrentIdle
    /\ DirectIdle
    /\ history = << >>
    /\ sleepLog = << >>
    /\ RunnerIdle
    /\ NoCommand
    /\ MonitorIdle

NextTransport == SessionRequest \/ HandleResponse

SpecTransport == InitTransport /\ [][NextTransport]_vars

\* the holder of a client makes its next request on it: every operation of
\* the client goes through _make_request and self.session
NextCall ==
    /\ tpc = "done"
    /\ attempts < Len(script)
    /\ tpc' = "start"
    /\ outcome' = NoOutcome
    /\ UNCHANGED <<script, response, attempts, session, sleepLog, history>>
    /\ UNCHANGED searchVars
    /\ UNCHANGED torrentVars
    /\ UNCHANGED directVars
    /\ UNCHANGED backgroundVars

NextClient == SessionRequest \/ HandleResponse \/ NextCall

SpecClient == InitTransport /\ [][NextClient]_vars

----------------------------------------------------------------------------
\* SearchResult.from_api_response and the search operations

\* the five operations that map a result array
SearchOps == {"search", "search_movies", "search_books", "search_games",
              "get_latest_games"}

\* One element of the "results" array. shape says whether the element is a
\* JSON object at all; extra is "absent" (no key), "null" or "dict"; a string
\* field that is "" is absent or empty (both are falsy in the code);
\* download_type "absent" is a missing key.
Raw(shape, extra, edt, mirror, dt, magnet, link, title, hash) ==
    [shape |-> shape, extra |-> extra, e_download_type |-> edt,
     e_mirror |-> mirror, download_type |-> dt, magnet_uri |-> magnet,
     link |-> link, title |-> title, info_hash |-> hash]

RawItems ==
    { Raw("dict", "absent", "", "", "magnet", "magnet:?xt=a", "", "A", "h1"),
      Raw("dict", "dict", "direct", "https://mirror/x.pdf", "absent", "", "",
          "B", "abc123"),
      Raw("dict", "dict", "", "", "direct", "", "http://l/c", "C", ""),
      Raw("dict", "absent", "", "", "absent", "", "http://t/d.torrent", "D", "h4"),
      Raw("string", "absent", "", "", "absent", "", "", "E", ""),
      Raw("dict", "null", "", "", "magnet", "magnet:?xt=f", "", "F", "h6"),
      Raw("dict", "dict", "direct", "", "absent", "magnet:?xt=g", "", "G", "") }

ResultArrays == SeqsUpTo(RawItems, MaxItems)

\* a or b for two strings: the first one that is not empty
Or(a, b) == IF a # "" THEN a ELSE b

AttributeError == [error |-> "AttributeError"]
IsError(r) == "error" \in DOMAIN r

\* a mapping that gives a direct result the mirror of "extra" and nothing
\* else
from_api_response_MirrorOnly(data) ==
    IF data.shape # "dict" THEN AttributeError
    ELSE IF data.extra = "null" THEN AttributeError
    ELSE
      LET download_type_str ==
              IF data.e_download_type # "" THEN data.e_download_type
              ELSE IF data.download_type = "absent" THEN "torrent"
              ELSE data.download_type
          download_type ==
              IF download_type_str = "direct" THEN "direct"
              ELSE IF download_type_str = "magnet" THEN "magnet"
              ELSE "torrent"
      IN [title |-> data.title,
          download_url |-> IF download_type = "direct" THEN data.e_mirror
                           ELSE Or(data.magnet_uri, data.link),
          download_type |-> download_type, info_hash |-> data.info_hash]

\* SearchResult.from_api_response: data.get and extra.get raise
\* AttributeError when data or extra is not a dict
from_api_response(data) ==
    IF data.shape # "dict" THEN AttributeError
    ELSE IF data.extra = "null" THEN AttributeError
    ELSE
      LET download_type_str ==
              IF data.e_download_type # "" THEN data.e_download_type
              ELSE IF data.download_type = "absent" THEN "torrent"
              ELSE data.download_type
          download_type ==
              IF download_type_str = "direct" THEN "direct"
              ELSE IF download_type_str = "magnet" THEN "magnet"
              ELSE "torrent"
          download_url ==
              IF download_type = "direct"
              THEN Or(data.e_mirror, Or(data.magnet_uri, data.link))
              ELSE Or(data.magnet_uri, data.link)
      IN [title |-> data.title, download_url |-> download_url,
          download_type |-> download_type, info_hash |-> data.info_hash]

\* the loop body without its try/except: the mapping failure escapes
LoopBody_NoExcept(acc, elem) ==
    LET r == from_api_response(elem)
    IN IF IsError(r) THEN [results |-> acc, raised |-> TRUE]
       ELSE [results |-> Append(acc, r), raised |-> FALSE]

\* one iteration of "for item in data.get("results", [])": try to append the
\* mapped item, on any exception print a warning and continue
LoopBody(acc, elem) ==
    LET r == from_api_response(elem)
    IN IF IsError(r) THEN [results |-> acc, raised |-> FALSE]
       ELSE [results |-> Append(acc, r), raised |-> FALSE]

\* response = self._make_request(...): an APIError leaves the operation
SearchCall ==
    /\ spc = "call"
    /\ tpc = "done"
    /\ IF outcome.kind = "ok"
       THEN spc' = "loop" /\ raised' = FALSE
       ELSE spc' = "done" /\ raised' = TRUE
    /\ UNCHANGED <<op, items, idx, results, sleepLog, history>>
    /\ UNCHANGED transportVars
    /\ UNCHANGED backgroundVars
    /\ UNCHANGED torrentVars
    /\ UNCHANGED directVars

MapItem ==
    /\ spc = "loop"
    /\ idx <= Len(items)
    /\ LET b == LoopBody(results, items[idx])
       IN /\ results' = b.results
          /\ raised' = b.raised
          /\ IF b.raised THEN spc' = "done" /\ idx' = idx
             ELSE spc' = "loop" /\ idx' = idx + 1
    /\ UNCHANGED <<op, items, sleepLog, history>>
    /\ UNCHANGED transportVars
    /\ UNCHANGED backgroundVars
    /\ UNCHANGED torrentVars
    /\ UNCHANGED directVars

\* return results
SearchReturn ==
    /\ spc = "loop"
    /\ idx > Len(items)
    /\ spc' = "done"
    /\ UNCHANGED <<op, items, idx, results, raised, sleepLog, history>>
    /\ UNCHANGED transportVars
    /\ UNCHANGED backgroundVars
    /\ UNCHANGED torrentVars
    /\ UNCHANGED directVars

InitSearch ==
    /\ TransportIdle
    /\ script \in {<<a>> : a \in Answers}
    /\ spc = "call"
    /\ op \in SearchOps
    /\ items \in ResultArrays
    /\ idx = 1
    /\ results = << >>
    /\ raised = FALSE
    /\ TorrentIdle
    /\ DirectIdle
    /\ history = << >>
    /\ sleepLog = << >>
    /\ RunnerIdle
    /\ NoCommand
    /\ MonitorIdle

NextSearch ==
    \/ SessionRequest
    \/ HandleResponse
    \/ SearchCall
    \/ MapItem
    \/ SearchReturn

SpecSearch == InitSearch /\ [][NextSearch]_vars

----------------------------------------------------------------------------
\* Strings whose characters the code inspects are sequences of characters

Uppercase == <<"A", "B", "C", "D", "E", "F", "G", "H", "I", "J", "K", "L", "M",
               "N", "O", "P", "Q", "R", "S", "T", "U", "V", "W", "X", "Y", "Z">>
Lowercase == <<"a", "b", "c", "d", "e", "f", "g", "h", "i", "j", "k", "l", "m",
               "n", "o", "p", "q", "r", "s", "t", "u", "v", "w", "x", "y", "z">>

\* str.lower()
LowerChar(c) ==
    IF \E i \in 1..Len(Uppercase) : Uppercase[i] = c
    THEN Lowercase[CHOOSE i \in 1..Len(Uppercase) : Uppercase[i] = c]
    ELSE c
Lower(str) == [i \in 1..Len(str) |-> LowerChar(str[i])]

\* a in b, for two strings
IsSubstring(a, b) ==
    \E i \in 0..(Len(b) - Len(a)) : SubSeq(b, i + 1, i + Len(a)) = a

\* str.startswith(prefix)
StartsWith(str, prefix) ==
    Len(str) >= Len(prefix) /\ SubSeq(str, 1, Len(prefix)) = prefix

\* str.split(): the maximal runs of characters that are not whitespace
RECURSIVE SplitFrom(_, _, _)
SplitFrom(str, i, word) ==
    IF i > Len(str) THEN (IF word = << >> THEN << >> ELSE <<word>>)
    ELSE IF str[i] = " "
    THEN (IF word = << >> THEN << >> ELSE <<word>>) \o SplitFrom(str, i + 1, << >>)
    ELSE SplitFrom(str, i + 1, Append(word, str[i]))
Split(str) == SplitFrom(str, 1, << >>)

----------------------------------------------------------------------------
\* download_with_progress and find_torrent_by_name

\* the default of the parameter max_wait of find_torrent_by_name
LocateMaxWait_Default == 10
\* polls of the torrent list find_torrent_by_name makes (max_wait=15)
LocateMaxWait == 15
\* most status polls of one task the model follows
MaxStatusPolls == 3
\* largest max_active_downloads and largest number of active downloads
MaxActive == 2



\* the strings of the examples
MagnetUrl ==
    <<"m", "a", "g", "n", "e", "t", ":", "?", "a">>
HttpUrl ==
    <<"h", "t", "t", "p", ":", "/", "/", "t">>
FtpUrl ==
    <<"f", "t", "p", ":", "/", "/", "t">>
TitleUbuntu ==
    <<"U", "b", "u", "n", "t", "u", " ", "2", "4">>
TitleAB ==
    <<"A", "B">>
NameUbuntu ==
    <<"u", "b", "u", "n", "t", "u", "-", "2", "4", "-", "a", "m", "d", "6", "4">>
NameXY ==
    <<"X", "Y">>
NameUbuntuServer ==
    <<"U", "b", "u", "n", "t", "u", " ", "S", "e", "r", "v", "e", "r">>

\* the dict a command hands to download_with_progress
Item(type, magnet, link, title, md5, source) ==
    [DownloadType |-> type, MagnetUri |-> magnet, Link |-> link, Title |-> title,
     title |-> title, md5 |-> md5, source |-> source]

TorrentItems ==
    { Item("TORRENT", MagnetUrl, HttpUrl, TitleUbuntu, "", "tpb"),
      Item("MAGNET", << >>, HttpUrl, TitleAB, "", "tpb"),
      Item("absent", MagnetUrl, << >>, << >>, "", "tpb"),
      Item("TORRENT", FtpUrl, HttpUrl, TitleUbuntu, "", "tpb"),
      Item("TORRENT", << >>, << >>, TitleAB, "", "tpb") }

\* names the daemon may give the submitted torrent
OwnNames == {NameUbuntu, NameXY}

\* what the daemon lists before the submission
OldLists ==
    { << >>,
      <<[name |-> NameXY, hash |-> "old1"]>>,
      <<[name |-> NameUbuntuServer, hash |-> "old1"]>> }

Configs == [max_active_downloads : 1..MaxActive, auto_remove_completed : BOOLEAN]

\* the states qBittorrent reports
TorrentStates == {"downloading", "metaDL", "pausedDL", "uploading", "stalledUP",
                  "queuedUP", "error"}
\* progress in percent: info.progress * 100
Progresses == {50, 100}
Observations == [progress : Progresses, state : TorrentStates]

\* the condition without its third operand, the words of the title
NameMatches_NoWords(search_name, name) ==
    LET search_name_lower == Lower(search_name)
        torrent_name == Lower(name)
    IN \/ IsSubstring(search_name_lower, torrent_name)
       \/ IsSubstring(torrent_name, search_name_lower)

\* the condition of find_torrent_by_name on one list entry
NameMatches(search_name, name) ==
    LET search_name_lower == Lower(search_name)
        torrent_name == Lower(name)
        words == Split(search_name_lower)
    IN \/ IsSubstring(search_name_lower, torrent_name)
       \/ IsSubstring(torrent_name, search_name_lower)
       \/ \E w \in 1..Len(words) :
              Len(words[w]) > 3 /\ IsSubstring(words[w], torrent_name)

\* the inner loop of find_torrent_by_name: the hash of the first entry that
\* matches, "" when none does
FirstMatch(list, search_name) ==
    LET hits == {i \in 1..Len(list) : NameMatches(search_name, list[i].name)}
    IN IF hits = {} THEN ""
       ELSE list[CHOOSE i \in hits : \A j \in hits : i <= j].hash

\* the admission test without its equality case
AtCapacity_Strict(active, config) == active > config.max_active_downloads

\* len(active_downloads) >= cfg.get("max_active_downloads", 5)
AtCapacity(active, config) == active >= config.max_active_downloads

\* mag = item.get("MagnetUri") or item.get("Link")
Mag(it) == IF it.MagnetUri # << >> THEN it.MagnetUri ELSE it.Link

\* the test on mag without its second operand
InvalidLink_EmptyOnly(mag) == mag = << >>

\* not mag, or not mag.startswith(("magnet:", "http"))
InvalidLink(mag) ==
    \/ mag = << >>
    \/ ~(StartsWith(mag, <<"m", "a", "g", "n", "e", "t", ":">>) \/ StartsWith(mag, <<"h", "t", "t", "p">>))

\* the task leaves download_with_progress by a return
Return(how) ==
    /\ dpc' = "done"
    /\ ending' = how

\* the DownloadType test, load_json and qb_client(): the log-in may raise
Dispatch ==
    /\ dpc = "start"
    /\ IF item.DownloadType = "DIRECT"
       THEN dpc' = "direct" /\ UNCHANGED ending
       ELSE \E login \in BOOLEAN :
              IF login THEN dpc' = "admission" /\ UNCHANGED ending
              ELSE Return("Raised")
    /\ UNCHANGED <<item, cfg, qb, calls, task_hash, info, finished>>
    /\ UNCHANGED <<history, sleepLog>>
    /\ UNCHANGED transportVars
    /\ UNCHANGED backgroundVars
    /\ UNCHANGED searchVars
    /\ UNCHANGED directVars

\* active_downloads = qb.torrents_info(filter="downloading") and the test
\* against max_active_downloads
Admission ==
    /\ dpc = "admission"
    /\ \E active \in 0..MaxActive :
         /\ calls' = [calls EXCEPT !.active = active]
         /\ IF AtCapacity(active, cfg)
            THEN Return("CapacityExceeded")
            ELSE dpc' = "validate" /\ UNCHANGED ending
    /\ UNCHANGED <<item, cfg, qb, task_hash, info, finished>>
    /\ UNCHANGED <<history, sleepLog>>
    /\ UNCHANGED transportVars
    /\ UNCHANGED backgroundVars
    /\ UNCHANGED searchVars
    /\ UNCHANGED directVars

\* the two tests on mag
Validate ==
    /\ dpc = "validate"
    /\ IF InvalidLink(Mag(item))
       THEN Return("InvalidLink")
       ELSE dpc' = "add" /\ UNCHANGED ending
    /\ UNCHANGED <<item, cfg, qb, calls, task_hash, info, finished>>
    /\ UNCHANGED <<history, sleepLog>>
    /\ UNCHANGED transportVars
    /\ UNCHANGED backgroundVars
    /\ UNCHANGED searchVars
    /\ UNCHANGED directVars

\* the add call without its try/except and return: the task goes on
Add_GoesOn ==
    /\ dpc = "add"
    /\ \E accepted \in BOOLEAN :
         /\ calls' = [calls EXCEPT !.add = @ + 1,
                                   !.rejected = IF accepted THEN @ ELSE @ + 1]
         /\ dpc' = "locate"
         /\ sleepLog' = Append(sleepLog, 2)
         /\ UNCHANGED ending
    /\ UNCHANGED <<item, cfg, qb, task_hash, info, finished>>
    /\ UNCHANGED history
    /\ UNCHANGED transportVars
    /\ UNCHANGED backgroundVars
    /\ UNCHANGED searchVars
    /\ UNCHANGED directVars

\* qb.torrents_add(...), which may raise, then time.sleep(2)
Add ==
    /\ dpc = "add"
    /\ \E accepted \in BOOLEAN :
         /\ calls' = [calls EXCEPT !.add = @ + 1,
                                   !.rejected = IF accepted THEN @ ELSE @ + 1]
         /\ IF accepted
            THEN /\ dpc' = "locate"
                 /\ sleepLog' = Append(sleepLog, 2)
                 /\ UNCHANGED ending
            ELSE /\ Return("DaemonRejected")
                 /\ UNCHANGED sleepLog
    /\ UNCHANGED <<item, cfg, qb, task_hash, info, finished>>
    /\ UNCHANGED history
    /\ UNCHANGED transportVars
    /\ UNCHANGED backgroundVars
    /\ UNCHANGED searchVars
    /\ UNCHANGED directVars

\* the lists the daemon can answer a poll with: until it has registered the
\* submitted torrent it may register it now, under one of its names, before
\* or after the older entries
ListsNow ==
    IF qb.registered THEN {qb.list}
    ELSE {qb.list}
           \cup {Append(qb.list, [name |-> n, hash |-> "own"]) : n \in OwnNames}
           \cup {<<[name |-> n, hash |-> "own"]>> \o qb.list : n \in OwnNames}

\* one iteration of the loop of find_torrent_by_name: qb.torrents_info(),
\* the search for a match and, without one, time.sleep(1)
LocatePoll ==
    /\ dpc = "locate"
    /\ calls.locate < LocateMaxWait
    /\ calls' = [calls EXCEPT !.locate = @ + 1]
    /\ \E list \in ListsNow :
         /\ qb' = [list |-> list, registered |-> qb.registered \/ list # qb.list]
         /\ LET found == FirstMatch(list, item.Title)
            IN IF found # ""
               THEN /\ task_hash' = found
                    /\ dpc' = "poll"
                    /\ UNCHANGED sleepLog
               ELSE /\ sleepLog' = Append(sleepLog, 1)
                    /\ UNCHANGED <<task_hash, dpc>>
    /\ UNCHANGED <<item, cfg, info, finished, ending>>
    /\ UNCHANGED history
    /\ UNCHANGED transportVars
    /\ UNCHANGED backgroundVars
    /\ UNCHANGED searchVars
    /\ UNCHANGED directVars

\* find_torrent_by_name returns None after max_wait polls: not task_hash
LocateGiveUp ==
    /\ dpc = "locate"
    /\ calls.locate >= LocateMaxWait
    /\ Return("HandleNotFound")
    /\ UNCHANGED <<item, cfg, qb, calls, task_hash, info, finished>>
    /\ UNCHANGED <<history, sleepLog>>
    /\ UNCHANGED transportVars
    /\ UNCHANGED backgroundVars
    /\ UNCHANGED searchVars
    /\ UNCHANGED directVars

\* the status loop stops and the code after the loop runs
LeaveLoop(how) ==
    /\ dpc' = "after_loop"
    /\ ending' = how

\* one iteration of "while not progress.finished", for a torrent the daemon
\* no longer lists: IndexError, break
StatusPollVanished ==
    /\ dpc = "poll"
    /\ ~finished
    /\ calls.status < MaxStatusPolls
    /\ calls' = [calls EXCEPT !.status = @ + 1]
    /\ LeaveLoop("HandleLost")
    /\ UNCHANGED <<item, cfg, qb, task_hash, info, finished>>
    /\ UNCHANGED <<history, sleepLog>>
    /\ UNCHANGED transportVars
    /\ UNCHANGED backgroundVars
    /\ UNCHANGED searchVars
    /\ UNCHANGED directVars

Seeding == {"uploading", "stalledUP", "queuedUP"}

\* one iteration of "while not progress.finished" with a status: the bar is
\* updated (it is finished once completed reaches its total of 100), then
\* the break tests, then time.sleep(1) and the loop test
StatusPoll ==
    /\ dpc = "poll"
    /\ ~finished
    /\ calls.status < MaxStatusPolls
    /\ calls' = [calls EXCEPT !.status = @ + 1]
    /\ \E o \in Observations :
         /\ info' = o
         /\ finished' = (o.progress >= 100)
         /\ IF o.progress >= 100 /\ o.state \in Seeding
            THEN LeaveLoop("Completed") /\ UNCHANGED sleepLog
            ELSE IF o.state = "error"
            THEN LeaveLoop("DaemonError") /\ UNCHANGED sleepLog
            ELSE /\ sleepLog' = Append(sleepLog, 1)
                 /\ IF o.progress >= 100
                    THEN LeaveLoop("Completed")
                    ELSE UNCHANGED <<dpc, ending>>
    /\ UNCHANGED <<item, cfg, qb, task_hash>>
    /\ UNCHANGED history
    /\ UNCHANGED transportVars
    /\ UNCHANGED backgroundVars
    /\ UNCHANGED searchVars
    /\ UNCHANGED directVars

\* the update of history.json, were only the new entry saved
history_append_Overwrite(entries, entry) == <<entry>>

\* history = load_json(HISTORY_PATH); history.append(entry);
\* save_json(HISTORY_PATH, history)
history_append(entries, entry) == Append(entries, entry)

\* the entry download_with_progress appends
TorrentEntry == [title |-> item.Title, hash |-> task_hash]

\* The code after the loop runs whatever ended the loop (the loop test or
\* one of the three breaks): the success panel, then history.append(...) and
\* save_json; then the auto_remove_completed test
AppendHistory ==
    /\ dpc = "after_loop"
    /\ history' = history_append(history, TorrentEntry)
    /\ dpc' = IF cfg.auto_remove_completed /\ task_hash # "" THEN "auto_remove"
              ELSE "done"
    /\ UNCHANGED <<item, cfg, qb, calls, task_hash, info, finished, ending>>
    /\ UNCHANGED sleepLog
    /\ UNCHANGED transportVars
    /\ UNCHANGED backgroundVars
    /\ UNCHANGED searchVars
    /\ UNCHANGED directVars

\* the delete call without its try: a failure leaves the task as an
\* exception
AutoRemove_Raises ==
    /\ dpc = "auto_remove"
    /\ calls' = [calls EXCEPT !.delete = @ + 1]
    /\ \E deleted \in BOOLEAN :
         IF deleted
         THEN /\ qb' = [qb EXCEPT !.list = SelectSeq(qb.list,
                                            LAMBDA t : t.hash # task_hash)]
              /\ UNCHANGED ending
         ELSE /\ qb' = qb
              /\ ending' = "Raised"
    /\ dpc' = "done"
    /\ UNCHANGED <<item, cfg, task_hash, info, finished>>
    /\ UNCHANGED <<history, sleepLog>>
    /\ UNCHANGED transportVars
    /\ UNCHANGED backgroundVars
    /\ UNCHANGED searchVars
    /\ UNCHANGED directVars

\* qb.torrents_delete(torrent_hashes=task_hash, delete_files=False); a
\* failure is printed
AutoRemove ==
    /\ dpc = "auto_remove"
    /\ calls' = [calls EXCEPT !.delete = @ + 1]
    /\ \E deleted \in BOOLEAN :
         qb' = IF deleted
               THEN [qb EXCEPT !.list = SelectSeq(qb.list,
                                            LAMBDA t : t.hash # task_hash)]
               ELSE qb
    /\ dpc' = "done"
    /\ UNCHANGED <<item, cfg, task_hash, info, finished, ending>>
    /\ UNCHANGED <<history, sleepLog>>
    /\ UNCHANGED transportVars
    /\ UNCHANGED backgroundVars
    /\ UNCHANGED searchVars
    /\ UNCHANGED directVars

\* history.json before the task
OldHistories == {<< >>, <<[title |-> TitleAB, hash |-> "old0"]>>}

InitTorrent ==
    /\ TransportIdle
    /\ script = <<Http(200)>>
    /\ SearchIdle
    /\ dpc = "start"
    /\ item \in TorrentItems
    /\ cfg \in Configs
    /\ qb \in [list : OldLists, registered : {FALSE}]
    /\ calls = NoCalls /\ task_hash = "" /\ info = NoInfo
    /\ finished = FALSE /\ ending = ""
    /\ DirectIdle
    /\ history \in OldHistories
    /\ sleepLog = << >>
    /\ RunnerIdle
    /\ NoCommand
    /\ MonitorIdle

NextTorrent ==
    \/ Dispatch
    \/ Admission
    \/ Validate
    \/ Add
    \/ LocatePoll
    \/ LocateGiveUp
    \/ StatusPollVanished
    \/ StatusPoll
    \/ AppendHistory
    \/ AutoRemove

SpecTorrent == InitTorrent /\ [][NextTorrent]_vars

\* download_with_progress is straight-line code around its two loops: as
\* long as a step of it is possible, one is taken
SpecTorrentLive == SpecTorrent /\ WF_vars(NextTorrent)

----------------------------------------------------------------------------
\* download_direct_file

\* max_retries
MaxRetries == 3
\* time.sleep(2) before a retry
RetryWait == 2
\* chunk_size of response.iter_content
ChunkSize == 32768
\* file_size < 1024 is suspicious
SuspiciousSize == 1024

\* sizes of the content the mirror serves
Totals == {1000, 1024, 2048, 70000}

\* A file is the sequence of the byte ranges <<lo, hi>> of the content (lo
\* included, hi excluded) that were written to it, in the order they lie in
\* the file; ranges that continue each other are one range.
AppendRange(segs, lo, hi) ==
    IF lo >= hi THEN segs
    ELSE IF segs # << >> /\ segs[Len(segs)][2] = lo
    THEN [segs EXCEPT ![Len(segs)] = <<segs[Len(segs)][1], hi>>]
    ELSE Append(segs, <<lo, hi>>)

RECURSIVE Size(_)
\* destination.stat().st_size
Size(segs) ==
    IF segs = << >> THEN 0
    ELSE (Head(segs)[2] - Head(segs)[1]) + Size(Tail(segs))

FirstBytes(n) == [exists |-> TRUE, segs |-> AppendRange(<< >>, 0, n)]

\* the destination before the download: no file, an empty file, the first
\* n bytes of the content, or all of it
InitialFiles(total) ==
    {NoFile} \cup {FirstBytes(n) : n \in {m \in {0, 500, 1000, 40000, total} : m <= total}}

Servers == [total : Totals, ranged : BOOLEAN]

TitleBook ==
    <<"G", "o", ":", " ", "2", " ">>

DirectItems ==
    { Item("DIRECT", << >>, HttpUrl, TitleBook, "abc123", "libgen"),
      Item("DIRECT", << >>, HttpUrl, TitleUbuntu, "", "annas") }

\* what the mirror answers to a GET with the Range offset from (-1: no Range
\* header): a mirror that honours ranges answers 206 with the rest of the
\* content and, for an offset at or past the end, 416 or an empty 206; a
\* mirror that ignores them answers 200 with the whole content
MirrorAnswers(from) ==
    IF from < 0 \/ ~server.ranged
    THEN {[status |-> 200, lo |-> 0, hi |-> server.total]}
    ELSE IF from < server.total
    THEN {[status |-> 206, lo |-> from, hi |-> server.total]}
    ELSE {[status |-> 416, lo |-> 0, hi |-> 0],
          [status |-> 206, lo |-> server.total, hi |-> server.total]}

Digits == <<"0", "1", "2", "3", "4", "5", "6", "7", "8", "9">>

InSeq(c, chars) == \E i \in 1..Len(chars) : chars[i] = c

\* c.isalnum() or c in (" ", "-", "_")
KeptInFilename(c) ==
    \/ InSeq(c, Uppercase) \/ InSeq(c, Lowercase) \/ InSeq(c, Digits)
    \/ c \in {" ", "-", "_"}

RECURSIVE Strip(_)
\* str.strip()
Strip(str) ==
    IF str = << >> THEN str
    ELSE IF Head(str) = " " THEN Strip(Tail(str))
    ELSE IF str[Len(str)] = " " THEN Strip(SubSeq(str, 1, Len(str) - 1))
    ELSE str

\* safe_title[:200]
FilenameLimit == 200

\* destination = download_path / f"{safe_title}.{extension}", the extension
\* being the default "pdf"
Destination(it) ==
    LET safe_title == Strip(SelectSeq(it.title, KeptInFilename))
    IN [name |-> SubSeq(safe_title, 1, IF Len(safe_title) < FilenameLimit
                                        THEN Len(safe_title) ELSE FilenameLimit),
        extension |-> "pdf"]

\* the task leaves download_direct_file by a return
DReturn(how) ==
    /\ dpc' = "done"
    /\ ending' = how

\* the start of download_direct_file without the test of md5
CheckMd5_Skip ==
    /\ dpc = "direct"
    /\ dpc' = "resolve"
    /\ UNCHANGED <<item, cfg, qb, calls, task_hash, info, finished, ending>>
    /\ UNCHANGED directVars
    /\ UNCHANGED <<history, sleepLog>>
    /\ UNCHANGED transportVars
    /\ UNCHANGED backgroundVars
    /\ UNCHANGED searchVars

\* md5 = extra.get("md5"); if not md5: return False
CheckMd5 ==
    /\ dpc = "direct"
    /\ IF item.md5 = ""
       THEN DReturn("MissingChecksum")
       ELSE dpc' = "resolve" /\ UNCHANGED ending
    /\ UNCHANGED <<item, cfg, qb, calls, task_hash, info, finished>>
    /\ UNCHANGED directVars
    /\ UNCHANGED <<history, sleepLog>>
    /\ UNCHANGED transportVars
    /\ UNCHANGED backgroundVars
    /\ UNCHANGED searchVars

\* the answers of api.get_download_url: each of the two keys with a URL or
\* without one
UrlInfos == [download_url : {"", "https://host/x.pdf"},
             mirror : {"", "https://mirror/x.pdf"}]

\* the call of get_download_url without the test of its result
Resolve_IgnoreEmpty ==
    /\ dpc = "resolve"
    /\ calls' = [calls EXCEPT !.resolve = @ + 1]
    /\ \/ DReturn("ResolveFailed") /\ UNCHANGED download_url_info
       \/ \E answer \in UrlInfos :
            /\ download_url_info' = answer
            /\ dpc' = "attempt" /\ UNCHANGED ending
    /\ UNCHANGED <<item, cfg, qb, task_hash, info, finished>>
    /\ UNCHANGED <<server, disk0, disk, retry_count, downloaded_size, headers, resp,
                   total_size, wire>>
    /\ UNCHANGED <<history, sleepLog>>
    /\ UNCHANGED transportVars
    /\ UNCHANGED backgroundVars
    /\ UNCHANGED searchVars

\* api.get_download_url(...): it raises, returns no download_url and no
\* mirror, or returns a URL
Resolve ==
    /\ dpc = "resolve"
    /\ calls' = [calls EXCEPT !.resolve = @ + 1]
    /\ \/ DReturn("ResolveFailed") /\ UNCHANGED download_url_info
       \/ \E answer \in UrlInfos :
            /\ download_url_info' = answer
            /\ IF Or(answer.download_url, answer.mirror) = ""
               THEN DReturn("NoMirror")
               ELSE dpc' = "attempt" /\ UNCHANGED ending
    /\ UNCHANGED <<item, cfg, qb, task_hash, info, finished>>
    /\ UNCHANGED <<server, disk0, disk, retry_count, downloaded_size, headers, resp,
                   total_size, wire>>
    /\ UNCHANGED <<history, sleepLog>>
    /\ UNCHANGED transportVars
    /\ UNCHANGED backgroundVars
    /\ UNCHANGED searchVars

\* what a failed attempt leaves of the file, were the partial file
\* discarded before the retry
KeptOnRetry_Discard(file) == NoFile

\* what a failed attempt leaves of the file before the retry: all of it
KeptOnRetry(file) == file

\* what the last failed attempt leaves of the file, were the clean-up
\* missing
AfterLastAttempt_Keep(file) == file

\* what the last failed attempt leaves of the file: if destination.exists():
\* destination.unlink()
AfterLastAttempt(file) == NoFile

\* the except clause of the retry loop, for the file as the failed attempt
\* left it: count the attempt, then wait and go round the loop, or delete
\* the partial file and return False
OnException(file) ==
    /\ retry_count' = retry_count + 1
    /\ IF retry_count + 1 < MaxRetries
       THEN /\ sleepLog' = Append(sleepLog, RetryWait)
            /\ disk' = KeptOnRetry(file)
            /\ dpc' = "attempt"
            /\ UNCHANGED ending
       ELSE /\ disk' = AfterLastAttempt(file)
            /\ DReturn("DownloadFailed")
            /\ UNCHANGED sleepLog

\* the resume offset, were it not read from the file
ResumeOffset_Zero(file) == 0

\* downloaded_size: the size of the destination if it exists, else 0
ResumeOffset(file) == IF file.exists THEN Size(file.segs) ELSE 0

\* the offset of the Range header: bytes=downloaded_size- when
\* downloaded_size > 0
RangeHeader(size) == IF size > 0 THEN size ELSE -1

\* The start of one round of "while retry_count < max_retries": the resume
\* offset, the Range header, requests.get and raise_for_status. The request
\* raises (no connection, time-out, 4xx or 5xx), or the response arrives:
\* total_size is computed and the file is opened, "ab" when resuming and
\* "wb" (which empties it) otherwise.
Request ==
    /\ dpc = "attempt"
    /\ retry_count < MaxRetries
    /\ calls' = [calls EXCEPT !.get = @ + 1]
    /\ LET size == ResumeOffset(disk)
           from == RangeHeader(size)
       IN /\ downloaded_size' = size
          /\ headers' = from
          /\ \/ /\ OnException(disk)
                /\ UNCHANGED <<resp, total_size>>
             \/ \E r \in MirrorAnswers(from) :
                  IF r.status >= 400
                  THEN /\ OnException(disk)
                       /\ UNCHANGED <<resp, total_size>>
                  ELSE /\ resp' = r
                       /\ total_size' = IF size > 0 /\ r.status = 206
                                        THEN (r.hi - r.lo) + size
                                        ELSE r.hi - r.lo
                       /\ disk' = IF size > 0 THEN disk
                                  ELSE [exists |-> TRUE, segs |-> << >>]
                       /\ dpc' = "stream"
                       /\ UNCHANGED <<retry_count, ending, sleepLog>>
    /\ UNCHANGED <<server, disk0, wire, download_url_info>>
    /\ UNCHANGED <<item, cfg, qb, task_hash, info, finished>>
    /\ UNCHANGED history
    /\ UNCHANGED transportVars
    /\ UNCHANGED backgroundVars
    /\ UNCHANGED searchVars

\* one chunk of response.iter_content: f.write(chunk) and
\* downloaded_size += len(chunk)
WriteChunk ==
    /\ dpc = "stream"
    /\ resp.lo < resp.hi
    /\ LET next == IF resp.lo + ChunkSize < resp.hi THEN resp.lo + ChunkSize
                   ELSE resp.hi
       IN /\ disk' = [disk EXCEPT !.segs = AppendRange(@, resp.lo, next)]
          /\ wire' = Append(wire, <<resp.lo, next>>)
          /\ downloaded_size' = downloaded_size + (next - resp.lo)
          /\ resp' = [resp EXCEPT !.lo = next]
    /\ UNCHANGED <<server, disk0, retry_count, headers, total_size,
                   download_url_info>>
    /\ UNCHANGED torrentVars
    /\ UNCHANGED <<history, sleepLog>>
    /\ UNCHANGED transportVars
    /\ UNCHANGED backgroundVars
    /\ UNCHANGED searchVars

\* the stream raises (connection lost, time-out, chunked-encoding error):
\* the file is closed with what was written and the except clause runs
StreamBreak ==
    /\ dpc = "stream"
    /\ OnException(disk)
    /\ UNCHANGED <<server, disk0, downloaded_size, headers, resp, total_size, wire,
                   download_url_info>>
    /\ UNCHANGED <<item, cfg, qb, calls, task_hash, info, finished>>
    /\ UNCHANGED history
    /\ UNCHANGED transportVars
    /\ UNCHANGED backgroundVars
    /\ UNCHANGED searchVars

\* the stream ends: break out of the retry loop
StreamEnd ==
    /\ dpc = "stream"
    /\ resp.lo >= resp.hi
    /\ dpc' = "verify"
    /\ UNCHANGED <<item, cfg, qb, calls, task_hash, info, finished, ending>>
    /\ UNCHANGED directVars
    /\ UNCHANGED <<history, sleepLog>>
    /\ UNCHANGED transportVars
    /\ UNCHANGED backgroundVars
    /\ UNCHANGED searchVars

\* the size test of the integrity check, with the limit included
Suspicious_Inclusive(file_size) == file_size <= SuspiciousSize

\* file_size < 1024
Suspicious(file_size) == file_size < SuspiciousSize

\* after the loop: the file must exist; a suspicious size asks the operator
Verify ==
    /\ dpc = "verify"
    /\ IF ~disk.exists THEN DReturn("FileNotFound")
       ELSE IF Suspicious(Size(disk.segs))
       THEN dpc' = "confirm" /\ UNCHANGED ending
       ELSE dpc' = "record" /\ UNCHANGED ending
    /\ UNCHANGED <<item, cfg, qb, calls, task_hash, info, finished>>
    /\ UNCHANGED directVars
    /\ UNCHANGED <<history, sleepLog>>
    /\ UNCHANGED transportVars
    /\ UNCHANGED backgroundVars
    /\ UNCHANGED searchVars

\* Confirm.ask("Keep this file anyway?"): declining deletes the file
Confirm ==
    /\ dpc = "confirm"
    /\ calls' = [calls EXCEPT !.confirm = @ + 1]
    /\ \E keep \in BOOLEAN :
         IF keep
         THEN dpc' = "record" /\ UNCHANGED <<ending, disk>>
         ELSE disk' = NoFile /\ DReturn("SuspiciousSize")
    /\ UNCHANGED <<server, disk0, retry_count, downloaded_size, headers, resp,
                   total_size, wire, download_url_info>>
    /\ UNCHANGED <<item, cfg, qb, task_hash, info, finished>>
    /\ UNCHANGED <<history, sleepLog>>
    /\ UNCHANGED transportVars
    /\ UNCHANGED backgroundVars
    /\ UNCHANGED searchVars

\* the entry, were its size taken from the Content-Length of the response
DirectEntry_ContentLength ==
    [title |-> item.title, type |-> "direct", path |-> Destination(item),
     source |-> item.source, size |-> total_size]

\* the entry download_direct_file appends
DirectEntry ==
    [title |-> item.title, type |-> "direct", path |-> Destination(item),
     source |-> item.source, size |-> Size(disk.segs)]

\* history.append(...), save_json, return True
Record ==
    /\ dpc = "record"
    /\ history' = history_append(history, DirectEntry)
    /\ DReturn("Success")
    /\ UNCHANGED <<item, cfg, qb, calls, task_hash, info, finished>>
    /\ UNCHANGED directVars
    /\ UNCHANGED sleepLog
    /\ UNCHANGED transportVars
    /\ UNCHANGED backgroundVars
    /\ UNCHANGED searchVars

InitDirect ==
    /\ TransportIdle
    /\ script = <<Http(200)>>
    /\ SearchIdle
    /\ dpc = "start"
    /\ item \in DirectItems
    /\ cfg = [max_active_downloads |-> 5, auto_remove_completed |-> FALSE]
    /\ qb = [list |-> << >>, registered |-> FALSE]
    /\ calls = NoCalls /\ task_hash = "" /\ info = NoInfo
    /\ finished = FALSE /\ ending = ""
    /\ server \in Servers
    /\ disk0 \in InitialFiles(server.total)
    /\ disk = disk0
    /\ retry_count = 0 /\ downloaded_size = 0 /\ headers = -1
    /\ resp = NoResp /\ total_size = 0 /\ wire = << >>
    /\ download_url_info = Unbound
    /\ history \in OldHistories
    /\ sleepLog = << >>
    /\ RunnerIdle
    /\ NoCommand
    /\ MonitorIdle

NextDirect ==
    \/ Dispatch
    \/ CheckMd5
    \/ Resolve
    \/ Request
    \/ WriteChunk
    \/ StreamBreak
    \/ StreamEnd
    \/ Verify
    \/ Confirm
    \/ Record

SpecDirect == InitDirect /\ [][NextDirect]_vars

----------------------------------------------------------------------------
\* download_with_progress for any item, with the history of earlier
\* acquisitions

\* history.json as earlier torrent and direct acquisitions left it
PastHistories ==
    { << >>,
      <<[title |-> TitleAB, hash |-> "old0"]>>,
      <<[title |-> TitleAB, hash |-> "old0"],
        [title |-> TitleBook, type |-> "direct",
         path |-> [name |-> <<"G", "o", " ", "2">>, extension |-> "pdf"],
         source |-> "libgen", size |-> 2048]>> }

InitAcquisitions ==
    /\ TransportIdle
    /\ script = <<Http(200)>>
    /\ SearchIdle
    /\ dpc = "start"
    /\ calls = NoCalls /\ task_hash = "" /\ info = NoInfo
    /\ finished = FALSE /\ ending = ""
    /\ \/ /\ item \in TorrentItems
          /\ cfg \in Configs
          /\ qb \in [list : OldLists, registered : {FALSE}]
          /\ DirectIdle
       \/ /\ item \in DirectItems
          /\ cfg = [max_active_downloads |-> 5, auto_remove_completed |-> FALSE]
          /\ qb = [list |-> << >>, registered |-> FALSE]
          /\ server \in Servers
          /\ disk0 \in InitialFiles(server.total)
          /\ disk = disk0
          /\ retry_count = 0 /\ downloaded_size = 0 /\ headers = -1
          /\ resp = NoResp /\ total_size = 0 /\ wire = << >>
          /\ download_url_info = Unbound
    /\ history \in PastHistories
    /\ sleepLog = << >>
    /\ RunnerIdle
    /\ NoCommand
    /\ MonitorIdle

NextAcquisitions == NextTorrent \/ NextDirect

SpecAcquisitions == InitAcquisitions /\ [][NextAcquisitions]_vars

----------------------------------------------------------------------------
\* fetch and schedule_runner

\* most ticks of a background thread the model follows
MaxTicks == 2
\* most records in schedule.json
MaxRecords == 2
\* longest result array the aggregator returns to a scheduled search
MaxFetched == 1

\* cfg.get("schedule_check_interval", 60)
ScheduleInterval == 60

\* One record of schedule.json, a file the runner reads anew at every tick:
\* done is the flag, time the moment it is due (in ticks of the clock); a
\* record of shape "no_time" has no "time" key.
TaskRecord(done, time, shape) == [done |-> done, time |-> time, shape |-> shape]

TaskRecords ==
    {TaskRecord(d, tm, "ok") : d \in BOOLEAN, tm \in {0, 1}}
        \cup {TaskRecord(d, 0, "no_time") : d \in BOOLEAN}

Schedules == SeqsUpTo(TaskRecords, MaxRecords)

\* the test of the loop without its first operand
Due_IgnoreDone(record, clock) ==
    IF record.shape = "no_time" THEN "KeyError"
    ELSE IF record.time <= clock THEN "yes"
    ELSE "no"

\* not task.get("done") and datetime.fromisoformat(task["time"]) <=
\* datetime.now(): "and" does not evaluate task["time"] for a done record;
\* for another record a missing "time" raises KeyError
Due(record, clock) ==
    IF record.done THEN "no"
    ELSE IF record.shape = "no_time" THEN "KeyError"
    ELSE IF record.time <= clock THEN "yes"
    ELSE "no"

\* fetch, were it to hand the failure to its caller
fetch_Typed(failed, found) ==
    IF failed THEN <<[error |-> "APIError"]>> ELSE found

\* fetch: return api.search(...), except APIError: print and return []
fetch(failed, found) == IF failed THEN << >> ELSE found

\* the attributes of a result that, like a dict, has a get
SearchResultAttributes_WithGet ==
    {"title", "download_url", "download_type", "info_hash", "size",
     "size_bytes", "seeders", "leechers", "category", "source",
     "publish_date", "extra", "from_api_response", "is_direct_download",
     "get_metadata", "get"}

\* the attributes of an instance of the dataclass SearchResult: its fields
\* and its methods
SearchResultAttributes ==
    {"title", "download_url", "download_type", "info_hash", "size",
     "size_bytes", "seeders", "leechers", "category", "source",
     "publish_date", "extra", "from_api_response", "is_direct_download",
     "get_metadata"}

\* no call of the aggregator is under way
FetchIdle ==
    /\ tpc = "done" /\ script = <<Http(200)>> /\ response = Http(0)
    /\ attempts = 0 /\ outcome = NoOutcome /\ session = NewSession
    /\ spc = "done" /\ op = "search" /\ items = << >>
    /\ idx = 1 /\ results = << >> /\ raised = FALSE

\* the call of fetch is over
FetchOver ==
    /\ tpc' = "done" /\ script' = <<Http(200)>> /\ response' = Http(0)
    /\ attempts' = 0 /\ outcome' = NoOutcome /\ session' = NewSession
    /\ spc' = "done" /\ op' = "search" /\ items' = << >>
    /\ idx' = 1 /\ results' = << >> /\ raised' = FALSE

\* the exception leaves schedule_runner, which has no try: the thread ends
RunnerDies ==
    /\ rpc' = "dead"

\* the start of a tick: load_json twice, qb_client() (whose log-in may
\* raise), updated = False
RunnerTick ==
    /\ rpc = "tick"
    /\ now < MaxTicks
    /\ sched' = schedFile
    /\ \E login \in BOOLEAN :
         IF login
         THEN rpc' = "for" /\ task' = 1 /\ updated' = FALSE
         ELSE RunnerDies /\ UNCHANGED <<task, updated>>
    /\ UNCHANGED <<schedFile, fetched, submitted, now, saves, searches>>
    /\ UNCHANGED <<history, sleepLog>>
    /\ UNCHANGED transportVars
    /\ UNCHANGED searchVars
    /\ UNCHANGED torrentVars
    /\ UNCHANGED directVars
    /\ UNCHANGED monitorVars
    /\ UNCHANGED foregroundVars

\* one record of "for task in sched": the test, and for a record that is
\* due the call of fetch, which calls api.search
RunnerTask ==
    /\ rpc = "for"
    /\ task <= Len(sched)
    /\ LET due == Due(sched[task], now)
       IN IF due = "KeyError"
          THEN /\ RunnerDies
               /\ UNCHANGED <<task, searches>>
               /\ UNCHANGED transportVars
               /\ UNCHANGED searchVars
          ELSE IF due = "yes"
          THEN /\ rpc' = "fetch"
               /\ searches' = searches + 1
               /\ tpc' = "start" /\ response' = Http(0) /\ attempts' = 0
               /\ session' = NewSession
               /\ outcome' = NoOutcome
               /\ script' \in {<<a>> : a \in Answers}
               /\ spc' = "call" /\ op' = "search"
               /\ items' \in SeqsUpTo(RawItems, MaxFetched)
               /\ idx' = 1 /\ results' = << >> /\ raised' = FALSE
               /\ UNCHANGED task
          ELSE /\ task' = task + 1
               /\ UNCHANGED <<rpc, searches>>
               /\ UNCHANGED transportVars
               /\ UNCHANGED searchVars
    /\ UNCHANGED <<schedFile, sched, fetched, updated, submitted, now, saves>>
    /\ UNCHANGED <<history, sleepLog>>
    /\ UNCHANGED torrentVars
    /\ UNCHANGED directVars
    /\ UNCHANGED monitorVars
    /\ UNCHANGED foregroundVars

\* fetch returns to schedule_runner
FetchReturn ==
    /\ rpc = "fetch"
    /\ spc = "done"
    /\ fetched' = fetch(raised, results)
    /\ rpc' = "got"
    /\ UNCHANGED <<schedFile, sched, task, updated, submitted, now, saves, searches>>
    /\ UNCHANGED <<history, sleepLog>>
    /\ UNCHANGED transportVars
    /\ UNCHANGED searchVars
    /\ UNCHANGED torrentVars
    /\ UNCHANGED directVars
    /\ UNCHANGED monitorVars
    /\ UNCHANGED foregroundVars

\* "if results:" and its body: results[0].get(...) raises AttributeError
\* unless the result has a get; then qb.torrents_add (which may raise),
\* task["done"] = True and updated = True. The call of fetch is over.
RunnerResults ==
    /\ rpc = "got"
    /\ IF fetched = << >>
       THEN /\ rpc' = "for" /\ task' = task + 1
            /\ UNCHANGED <<sched, updated, submitted>>
       ELSE IF "get" \notin SearchResultAttributes
       THEN /\ RunnerDies
            /\ UNCHANGED <<task, sched, updated, submitted>>
       ELSE \E accepted \in BOOLEAN :
              IF accepted
              THEN /\ submitted' = Append(submitted, task)
                   /\ sched' = [sched EXCEPT ![task].done = TRUE]
                   /\ updated' = TRUE
                   /\ rpc' = "for" /\ task' = task + 1
              ELSE /\ RunnerDies
                   /\ submitted' = Append(submitted, task)
                   /\ UNCHANGED <<task, sched, updated>>
    /\ FetchOver
    /\ UNCHANGED <<schedFile, fetched, now, saves, searches>>
    /\ UNCHANGED <<history, sleepLog>>
    /\ UNCHANGED torrentVars
    /\ UNCHANGED directVars
    /\ UNCHANGED monitorVars
    /\ UNCHANGED foregroundVars

\* the end of the tick with a save_json that does not ask "if updated"
RunnerSleep_AlwaysWrites ==
    /\ rpc = "for"
    /\ task > Len(sched)
    /\ schedFile' = sched
    /\ saves' = saves + 1
    /\ sleepLog' = Append(sleepLog, ScheduleInterval)
    /\ now' = now + 1
    /\ rpc' = "tick"
    /\ UNCHANGED <<sched, task, fetched, updated, submitted, searches>>
    /\ UNCHANGED history
    /\ UNCHANGED transportVars
    /\ UNCHANGED searchVars
    /\ UNCHANGED torrentVars
    /\ UNCHANGED directVars
    /\ UNCHANGED monitorVars
    /\ UNCHANGED foregroundVars

\* after the loop: save_json if a record was marked, then
\* time.sleep(cfg.get("schedule_check_interval", 60))
RunnerSleep ==
    /\ rpc = "for"
    /\ task > Len(sched)
    /\ schedFile' = (IF updated THEN sched ELSE schedFile)
    /\ saves' = (IF updated THEN saves + 1 ELSE saves)
    /\ sleepLog' = Append(sleepLog, ScheduleInterval)
    /\ now' = now + 1
    /\ rpc' = "tick"
    /\ UNCHANGED <<sched, task, fetched, updated, submitted, searches>>
    /\ UNCHANGED history
    /\ UNCHANGED transportVars
    /\ UNCHANGED searchVars
    /\ UNCHANGED torrentVars
    /\ UNCHANGED directVars
    /\ UNCHANGED monitorVars
    /\ UNCHANGED foregroundVars

InitSchedule ==
    /\ FetchIdle
    /\ TorrentIdle
    /\ DirectIdle
    /\ history = << >>
    /\ sleepLog = << >>
    /\ rpc = "tick"
    /\ schedFile \in Schedules
    /\ sched = << >> /\ task = 1 /\ fetched = << >> /\ updated = FALSE
    /\ submitted = << >> /\ now = 0 /\ saves = 0 /\ searches = 0
    /\ NoCommand
    /\ MonitorIdle

NextSchedule ==
    \/ RunnerTick
    \/ RunnerTask
    \/ SessionRequest
    \/ HandleResponse
    \/ SearchCall
    \/ MapItem
    \/ SearchReturn
    \/ FetchReturn
    \/ RunnerResults
    \/ RunnerSleep

SpecSchedule == InitSchedule /\ [][NextSchedule]_vars

----------------------------------------------------------------------------
\* schedule_add and schedule_remove, run by the foreground of the process
\* whose runner thread is ticking; a process runs one command

\* schedule_add: datetime.fromisoformat(when), which may raise ValueError
\* (the command returns), then sched = load_json(SCHEDULE_PATH)
ScheduleAddLoad ==
    /\ fpc = "start"
    /\ \E iso \in BOOLEAN :
         IF iso THEN fpc' = "add" /\ fsched' = schedFile
         ELSE fpc' = "done" /\ UNCHANGED fsched
    /\ UNCHANGED <<cmd, last>>
    /\ UNCHANGED <<history, sleepLog>>
    /\ UNCHANGED transportVars
    /\ UNCHANGED searchVars
    /\ UNCHANGED torrentVars
    /\ UNCHANGED directVars
    /\ UNCHANGED runnerVars
    /\ UNCHANGED monitorVars

\* schedule_add: sched.append({..., "time": when, "done": False, ...}) and
\* save_json(SCHEDULE_PATH, sched)
ScheduleAddSave ==
    /\ fpc = "add"
    /\ \E when \in {0, 1} :
         schedFile' = Append(fsched, TaskRecord(FALSE, when, "ok"))
    /\ fpc' = "done"
    /\ UNCHANGED <<fsched, cmd, last>>
    /\ UNCHANGED <<history, sleepLog>>
    /\ UNCHANGED transportVars
    /\ UNCHANGED searchVars
    /\ UNCHANGED torrentVars
    /\ UNCHANGED directVars
    /\ UNCHANGED <<rpc, sched, task, fetched, updated, submitted, now, saves, searches>>
    /\ UNCHANGED monitorVars

\* schedule_remove: sched = load_json(SCHEDULE_PATH)
ScheduleRemoveLoad ==
    /\ fpc = "start"
    /\ fpc' = "remove"
    /\ fsched' = schedFile
    /\ UNCHANGED <<cmd, last>>
    /\ UNCHANGED <<history, sleepLog>>
    /\ UNCHANGED transportVars
    /\ UNCHANGED searchVars
    /\ UNCHANGED torrentVars
    /\ UNCHANGED directVars
    /\ UNCHANGED runnerVars
    /\ UNCHANGED monitorVars

\* schedule_remove: an index outside 1..len(sched) returns; else
\* sched.pop(index - 1) and save_json(SCHEDULE_PATH, sched)
ScheduleRemoveSave ==
    /\ fpc = "remove"
    /\ \E index \in 0..MaxRecords :
         IF 1 <= index /\ index <= Len(fsched)
         THEN schedFile' = SubSeq(fsched, 1, index - 1)
                              \o SubSeq(fsched, index + 1, Len(fsched))
         ELSE UNCHANGED schedFile
    /\ fpc' = "done"
    /\ UNCHANGED <<fsched, cmd, last>>
    /\ UNCHANGED <<history, sleepLog>>
    /\ UNCHANGED transportVars
    /\ UNCHANGED searchVars
    /\ UNCHANGED torrentVars
    /\ UNCHANGED directVars
    /\ UNCHANGED <<rpc, sched, task, fetched, updated, submitted, now, saves, searches>>
    /\ UNCHANGED monitorVars

\* a schedule.json that schedule_add wrote, with room for one more record:
\* every record has its "time" key
WrittenSchedules ==
    SeqsUpTo({TaskRecord(d, tm, "ok") : d \in BOOLEAN, tm \in {0, 1}},
             MaxRecords - 1)

InitCommands ==
    /\ FetchIdle
    /\ TorrentIdle
    /\ DirectIdle
    /\ history = << >>
    /\ sleepLog = << >>
    /\ rpc = "tick"
    /\ schedFile \in WrittenSchedules
    /\ sched = << >> /\ task = 1 /\ fetched = << >> /\ updated = FALSE
    /\ submitted = << >> /\ now = 0 /\ saves = 0 /\ searches = 0
    /\ fpc = "start" /\ fsched = << >>
    /\ cmd = [name |-> "none", index |-> 0] /\ last = << >>
    /\ MonitorIdle

NextCommands ==
    \/ NextSchedule
    \/ ScheduleAddLoad
    \/ ScheduleAddSave
    \/ ScheduleRemoveLoad
    \/ ScheduleRemoveSave

SpecCommands == InitCommands /\ [][NextCommands]_vars

----------------------------------------------------------------------------
\* health_monitor

\* cfg.get("health_check_interval", 3600)
HealthInterval == 3600

Programs == {"torrent_cli", "yarr"}

\* what subprocess.run(["notify-send", ...], check=False) can do: the
\* notifier runs and exits with 0 or with another status, which check=False
\* ignores, or it cannot be launched and subprocess.run raises OSError
Launches == {"exit0", "exit1", "OSError"}

\* the "status" of the body of /api/v1/health
HealthStatuses == {"healthy", "degraded"}

\* torrent_cli.py, the first probe of a tick: is_healthy = True, then
\* requests.get(cfg["zil_api"] + "/test") and the test of the status code;
\* any exception makes the tick unhealthy
MonitorProbeApi ==
    /\ hpc = "tick"
    /\ program = "torrent_cli"
    /\ hticks < MaxTicks
    /\ \E a \in Answers :
         /\ probes' = [api |-> IF a.kind # "http" THEN "raises"
                               ELSE IF a.status = 200 THEN "ok"
                               ELSE "unhealthy",
                       daemon |-> "none"]
         /\ is_healthy' = (a.kind = "http" /\ a.status = 200)
    /\ notified' = FALSE
    /\ hpc' = "daemon"
    /\ UNCHANGED <<program, hticks>>
    /\ UNCHANGED <<history, sleepLog>>
    /\ UNCHANGED transportVars
    /\ UNCHANGED searchVars
    /\ UNCHANGED torrentVars
    /\ UNCHANGED directVars
    /\ UNCHANGED runnerVars
    /\ UNCHANGED foregroundVars

\* torrent_cli.py, the second probe: qb_client(), whose log-in may raise
MonitorProbeDaemon ==
    /\ hpc = "daemon"
    /\ \E login \in BOOLEAN :
         /\ probes' = [probes EXCEPT !.daemon = IF login THEN "ok" ELSE "raises"]
         /\ is_healthy' = (is_healthy /\ login)
    /\ hpc' = "notify"
    /\ UNCHANGED <<program, notified, hticks>>
    /\ UNCHANGED <<history, sleepLog>>
    /\ UNCHANGED transportVars
    /\ UNCHANGED searchVars
    /\ UNCHANGED torrentVars
    /\ UNCHANGED directVars
    /\ UNCHANGED runnerVars
    /\ UNCHANGED foregroundVars

\* torrent_cli.py: if not is_healthy: subprocess.run(...), outside any try
MonitorNotify ==
    /\ hpc = "notify"
    /\ IF is_healthy
       THEN hpc' = "sleep" /\ UNCHANGED notified
       ELSE \E launch \in Launches :
              IF launch = "OSError"
              THEN hpc' = "dead" /\ UNCHANGED notified
              ELSE hpc' = "sleep" /\ notified' = TRUE
    /\ UNCHANGED <<program, probes, is_healthy, hticks>>
    /\ UNCHANGED <<history, sleepLog>>
    /\ UNCHANGED transportVars
    /\ UNCHANGED searchVars
    /\ UNCHANGED torrentVars
    /\ UNCHANGED directVars
    /\ UNCHANGED runnerVars
    /\ UNCHANGED foregroundVars

\* yarr.py, the start of the try block of a tick: api.health_check() calls
\* _make_request
YarrMonitorTick ==
    /\ hpc = "tick"
    /\ program = "yarr"
    /\ hticks < MaxTicks
    /\ tpc' = "start" /\ response' = Http(0) /\ attempts' = 0
    /\ outcome' = NoOutcome /\ session' = NewSession
    /\ script' \in {<<a>> : a \in Answers}
    /\ probes' = NoProbes
    /\ notified' = FALSE
    /\ hpc' = "probe"
    /\ UNCHANGED <<program, is_healthy, hticks>>
    /\ UNCHANGED <<history, sleepLog>>
    /\ UNCHANGED searchVars
    /\ UNCHANGED torrentVars
    /\ UNCHANGED directVars
    /\ UNCHANGED runnerVars
    /\ UNCHANGED foregroundVars

\* yarr.py, the rest of the try block: _make_request raised APIError, or
\* health_check returned the body, and a status other than "healthy"
\* launches the notifier; the bare except swallows every exception of the
\* block
YarrMonitorProbed ==
    /\ hpc = "probe"
    /\ tpc = "done"
    /\ IF outcome.kind # "ok"
       THEN /\ probes' = [api |-> "raises", daemon |-> "none"]
            /\ notified' = FALSE
       ELSE \E status \in HealthStatuses, launch \in Launches :
              /\ probes' = [api |-> IF status = "healthy" THEN "ok"
                                    ELSE "unhealthy",
                            daemon |-> "none"]
              /\ notified' = (status # "healthy" /\ launch # "OSError")
    /\ hpc' = "sleep"
    /\ UNCHANGED <<program, is_healthy, hticks>>
    /\ UNCHANGED <<history, sleepLog>>
    /\ UNCHANGED transportVars
    /\ UNCHANGED searchVars
    /\ UNCHANGED torrentVars
    /\ UNCHANGED directVars
    /\ UNCHANGED runnerVars
    /\ UNCHANGED foregroundVars

\* time.sleep(cfg.get("health_check_interval", 3600)), then the next tick
MonitorSleep ==
    /\ hpc = "sleep"
    /\ sleepLog' = Append(sleepLog, HealthInterval)
    /\ hticks' = hticks + 1
    /\ hpc' = "tick"
    /\ UNCHANGED <<program, probes, is_healthy, notified>>
    /\ UNCHANGED history
    /\ UNCHANGED transportVars
    /\ UNCHANGED searchVars
    /\ UNCHANGED torrentVars
    /\ UNCHANGED directVars
    /\ UNCHANGED runnerVars
    /\ UNCHANGED foregroundVars

InitHealth ==
    /\ FetchIdle
    /\ TorrentIdle
    /\ DirectIdle
    /\ history = << >>
    /\ sleepLog = << >>
    /\ RunnerIdle
    /\ NoCommand
    /\ hpc = "tick"
    /\ program \in Programs
    /\ probes = NoProbes
    /\ is_healthy = TRUE /\ notified = FALSE /\ hticks = 0

NextHealth ==
    \/ MonitorProbeApi
    \/ MonitorProbeDaemon
    \/ MonitorNotify
    \/ YarrMonitorTick
    \/ SessionRequest
    \/ HandleResponse
    \/ YarrMonitorProbed
    \/ MonitorSleep

SpecHealth == InitHealth /\ [][NextHealth]_vars

----------------------------------------------------------------------------
\* Properties of GoTorrentAPI._make_request

TwoFailuresThenOk == <<Http(503), Http(503), Http(200)>>

C2_ClientErrorsNotRetried ==
    (tpc = "done" /\ script[1].kind = "http"
        /\ script[1].status >= 400 /\ script[1].status < 500)
        => /\ attempts = 1
           /\ sleepLog = << >>
           /\ outcome.kind = IF script[1].status = 404 THEN "NotFound"
                             ELSE "ClientError"

C2_Witness ==
    /\ tpc = "done" /\ script[1] = Http(404) /\ Len(script) = 3
    /\ outcome.kind = "NotFound"

\* a failure the specification calls retryable: 5xx, connection failure,
\* read timeout
Retryable(a) ==
    \/ a.kind = "http" /\ a.status >= 500
    \/ a.kind \in {"ConnectionError", "ReadTimeout"}

AllRetryable == \A i \in 1..Len(script) : Retryable(script[i])

----------------------------------------------------------------------------
\* Properties of the search operations

\* an element from_api_response can map: a JSON object whose "extra", when
\* present, is not null
WellFormed(data) == data.shape = "dict" /\ data.extra # "null"

RECURSIVE MappedWellFormed(_)
MappedWellFormed(s) ==
    IF s = << >> THEN << >>
    ELSE IF WellFormed(Head(s))
    THEN <<from_api_response(Head(s))>> \o MappedWellFormed(Tail(s))
    ELSE MappedWellFormed(Tail(s))

\* C4: every search operation returns exactly the mapped well-formed
\* elements of the result array, in their order; a malformed element is
\* skipped, never raises and never drops another element.
C4_PartialSuccess ==
    /\ (spc = "loop") =>
          /\ ~raised
          /\ results = MappedWellFormed(SubSeq(items, 1, idx - 1))
    /\ (spc = "done" /\ outcome.kind = "ok") =>
          /\ ~raised
          /\ results = MappedWellFormed(items)

C4_Witness ==
    /\ spc = "done" /\ outcome.kind = "ok" /\ op = "search_books"
    /\ Len(items) = 3
    /\ ~WellFormed(items[1]) /\ WellFormed(items[2]) /\ ~WellFormed(items[3])
    /\ Len(results) = 1

----------------------------------------------------------------------------
\* Properties of download_with_progress

\* the task is past the admission test and the daemon had reported at least
\* max_active_downloads active downloads
RefusedAtAdmission ==
    /\ item.DownloadType # "DIRECT"
    /\ dpc \notin {"start", "admission"}
    /\ calls.active >= cfg.max_active_downloads

\* C5: when the daemon reports at least max_active_downloads active
\* downloads at submission time, the task ends Abandoned(CapacityExceeded)
\* with no daemon submission call, no poll of the torrent list for the
\* handle and no history append.
C5_AdmissionControl ==
    RefusedAtAdmission
        => /\ dpc = "done"
           /\ ending = "CapacityExceeded"
           /\ calls.add = 0
           /\ calls.locate = 0
           /\ calls.status = 0
           /\ history \in OldHistories

C5_Witness ==
    /\ RefusedAtAdmission
    /\ cfg.max_active_downloads = 1
    /\ calls.active = 1
    /\ ~InvalidLink(Mag(item))

\* the task appended its entry to the history
Appended == history \notin OldHistories

\* C6: a torrent task appends a HistoryEntry if and only if it reaches
\* Completed; a task that ends Failed or Abandoned appends nothing.
C6_HistoryOnlyOnCompleted ==
    (dpc = "done" /\ item.DownloadType # "DIRECT")
        => (Appended <=> ending = "Completed")

----------------------------------------------------------------------------
\* Properties of download_direct_file

\* the whole content, as a file
WholeContent == AppendRange(<< >>, 0, server.total)

\* the stream of the last attempt ended without an exception
StreamCompleted ==
    \/ dpc \in {"verify", "confirm", "record"}
    \/ dpc = "done" /\ ending \in {"Success", "SuspiciousSize"}

\* the destination held the first n bytes of the content, 0 < n < total, and
\* the mirror honours ranges
ResumesPartialFile ==
    /\ item.DownloadType = "DIRECT"
    /\ server.ranged
    /\ disk0.exists
    /\ Size(disk0.segs) > 0
    /\ Size(disk0.segs) < server.total

\* C7: from a partial file with the first N bytes and a mirror that answers
\* ranged requests with partial content, the file is at every moment a
\* prefix of the content (no range twice, none missing), it is the whole
\* content once the stream completed, and no request receives a byte of
\* [0, N) again.
C7_Resume ==
    ResumesPartialFile
        => /\ disk.exists => disk.segs = AppendRange(<< >>, 0, Size(disk.segs))
           /\ (StreamCompleted /\ disk.exists) => disk.segs = WholeContent
           /\ \A i \in 1..Len(wire) : wire[i][1] >= Size(disk0.segs)
           /\ (calls.get > 0) => headers >= Size(disk0.segs)

C7_Witness ==
    /\ ResumesPartialFile
    /\ Size(disk0.segs) = 500
    /\ server.total = 70000
    /\ dpc = "done" /\ ending = "Success"
    /\ retry_count = 2
    /\ wire = <<<<500, 33268>>, <<33268, 66036>>, <<66036, 70000>>>>
    /\ disk.segs = WholeContent

\* a failed attempt that is followed by another one
RetryStep == retry_count' = retry_count + 1 /\ dpc' = "attempt"

\* C8: one download makes at most 3 streaming attempts in total; between a
\* failed attempt and the next one the partial file is kept (neither deleted
\* nor shortened), the wait is a fixed 2 time units, and the resume offset
\* of an attempt is the number of bytes on disk.
C8_RetryBudget ==
    /\ [](item.DownloadType = "DIRECT" =>
            /\ calls.get <= 3
            /\ retry_count <= 3
            /\ calls.get \in {retry_count, retry_count + 1}
            /\ (dpc = "stream") => downloaded_size = Size(disk.segs)
            /\ \A i \in 1..Len(sleepLog) : sleepLog[i] = 2)
    /\ [][RetryStep => (disk' = disk /\ sleepLog' = Append(sleepLog, 2))]_vars
    /\ [][(dpc = "attempt" /\ dpc' = "stream") =>
            /\ downloaded_size' = (IF disk.exists THEN Size(disk.segs) ELSE 0)
            /\ disk'.segs = disk.segs
            /\ disk'.exists]_vars

C8_Witness ==
    /\ item.DownloadType = "DIRECT"
    /\ dpc = "stream"
    /\ retry_count = 2
    /\ calls.get = 3
    /\ sleepLog = <<2, 2>>
    /\ downloaded_size = 65536
    /\ ~disk0.exists

\* C9: when all 3 attempts fail the download fails with DownloadFailed, the
\* destination file does not exist afterwards and no HistoryEntry is
\* appended.
C9_Exhaustion ==
    /\ (item.DownloadType = "DIRECT" /\ dpc = "done" /\ retry_count >= 3)
          => /\ ending = "DownloadFailed"
             /\ ~disk.exists
             /\ history \in OldHistories
    /\ (ending = "DownloadFailed") => (retry_count = 3 /\ calls.get = 3)

C9_Witness ==
    /\ dpc = "done" /\ ending = "DownloadFailed"
    /\ disk0.exists /\ Size(disk0.segs) = 500
    /\ Len(wire) >= 2
    /\ ~disk.exists

\* C10: after a completed stream the confirmation is asked if and only if
\* the final file size is < 1024 bytes (asked at 1000, not at 1024), and at
\* most once per download.
C10_SuspiciousSizeGate ==
    /\ calls.confirm <= 1
    /\ (dpc = "confirm") => (calls.confirm = 0 /\ Size(disk.segs) < 1024)
    /\ (dpc = "record" \/ (dpc = "done" /\ ending = "Success"))
          => (calls.confirm = 1 <=> Size(disk.segs) < 1024)
    /\ (dpc = "done" /\ ending = "SuspiciousSize") => calls.confirm = 1
    /\ (dpc = "done" /\ ending \notin {"Success", "SuspiciousSize"})
          => calls.confirm = 0
    /\ (dpc = "done" /\ ending = "Success" /\ Size(disk.segs) = 1000)
          => calls.confirm = 1
    /\ (dpc = "done" /\ ending = "Success" /\ Size(disk.segs) = 1024)
          => calls.confirm = 0

C10_Witness ==
    /\ dpc = "done" /\ ending = "Success"
    /\ Size(disk.segs) = 1000
    /\ calls.confirm = 1

----------------------------------------------------------------------------
\* Properties of the history of download_direct_file

\* C11: a direct download that succeeds appends exactly one HistoryEntry,
\* with type direct, the final file size, the path, the source and the
\* title; a download that ends any other way (MissingChecksum, NoMirror,
\* DownloadFailed, SuspiciousSize) appends none; when the operator declines
\* a suspicious file the file is deleted.
C11_DirectHistory ==
    item.DownloadType = "DIRECT" =>
        /\ (dpc = "done" /\ ending = "Success") =>
              /\ disk.exists
              /\ Len(history) >= 1
              /\ SubSeq(history, 1, Len(history) - 1) \in OldHistories
              /\ history[Len(history)] =
                    [title |-> item.title, type |-> "direct",
                     path |-> Destination(item), source |-> item.source,
                     size |-> Size(disk.segs)]
        /\ (dpc # "done" \/ ending # "Success") => history \in OldHistories
        /\ (dpc = "done" /\ ending = "SuspiciousSize")
              => (~disk.exists /\ calls.confirm = 1)

C11_Witness ==
    /\ dpc = "done" /\ ending = "Success"
    /\ item.md5 = "abc123"
    /\ server.total = 2048
    /\ ~disk0.exists
    /\ retry_count = 0
    /\ Len(history) = 2
    /\ history[2].type = "direct" /\ history[2].size = 2048

----------------------------------------------------------------------------
\* Properties of schedule_runner and fetch

\* C12: for a record of schedule.json whose done flag is true no tick runs a
\* search or hands anything to the daemon, and the record stays as it is, in
\* the file and in the list a tick loaded, however many ticks run.
C12_DoneIsIdempotent ==
    /\ [](\A i \in 1..Len(schedFile) :
            schedFile[i].done =>
                /\ (rpc \in {"fetch", "got"}) => task # i
                /\ \A k \in 1..Len(submitted) : submitted[k] # i
                /\ (i <= Len(sched)) => sched[i] = schedFile[i])
    /\ [][\A i \in 1..Len(schedFile) :
            schedFile[i].done =>
                (i <= Len(schedFile') /\ schedFile'[i] = schedFile[i])]_vars

C12_Witness ==
    /\ rpc = "tick"
    /\ now = 2
    /\ Len(schedFile) = 2
    /\ schedFile[1] = TaskRecord(TRUE, 0, "ok")
    /\ schedFile[2] = TaskRecord(FALSE, 0, "ok")
    /\ sched = schedFile
    /\ submitted = << >>

\* C13 (as stated): for a record that is not done and is due, whose search
\* returned at least one result, the first result is handed to the daemon
\* exactly once, the record is marked done and the runner goes on.
C13_DueRecordIsSubmitted ==
    [][(rpc = "got" /\ fetched # << >>)
          => /\ submitted' = Append(submitted, task)
             /\ sched'[task].done
             /\ rpc' = "for"]_vars

\* C14 (as stated): no failure inside a tick ends the loop of the runner.
C14_RunnerKeepsTicking == rpc # "dead"

\* C17 (as stated): when the transport call behind a search fails, the
\* caller of fetch receives a failure, never an empty list.
C17_TypedFailure ==
    (rpc = "got" /\ outcome.kind # "ok") => fetched # << >>

\* C17 (amended): when the transport call behind a search fails, the caller
\* of fetch receives the empty list, and the runner does with it what it
\* does after a search without results: it leaves the record as it is and
\* goes on to the next one.
C17_FailureIsEmptyList ==
    /\ []((rpc = "got" /\ outcome.kind # "ok") => fetched = << >>)
    /\ [][(rpc = "got" /\ fetched = << >>)
            => /\ rpc' = "for"
               /\ task' = task + 1
               /\ sched' = sched
               /\ submitted' = submitted]_vars

C17_Witness ==
    /\ rpc = "got"
    /\ outcome.kind = "ConnectionFailed"
    /\ fetched = << >>
    /\ ~sched[task].done

----------------------------------------------------------------------------
\* Properties of health_monitor

\* C15 (as stated): the loop of the health monitor never ends and no
\* exception leaves it, whatever the probes and the notifier do.
C15_MonitorNeverStops == hpc # "dead"

\* a probe of the tick raised an exception
ProbeRaised == probes.api = "raises" \/ probes.daemon = "raises"

\* C16 (as stated): a tick in which a probe raised an exception has emitted
\* a notification when it goes to sleep; a tick in which both probes
\* succeeded has emitted none.
C16_ProbeFailureNotifies ==
    (hpc = "sleep")
        => /\ ProbeRaised => notified
           /\ (probes.api = "ok" /\ probes.daemon \in {"ok", "none"})
                 => ~notified

----------------------------------------------------------------------------
\* Properties of find_torrent_by_name

TitleUbuntuDesktop ==
    <<"U", "b", "u", "n", "t", "u", " ", "2", "4", ".", "0", "4", " ",
      "D", "e", "s", "k", "t", "o", "p">>
NameUbuntuDesktop ==
    <<"u", "b", "u", "n", "t", "u", "-", "2", "4", ".", "0", "4", "-",
      "d", "e", "s", "k", "t", "o", "p", "-", "a", "m", "d", "6", "4">>

\* the rule as the specification words it: the lower-cased title within
\* the lower-cased name, or the reverse, or a whitespace-separated word of
\* the title longer than 3 characters within the name, letter case ignored
TitleMatchesName(title, name) ==
    \/ IsSubstring(Lower(title), Lower(name))
    \/ IsSubstring(Lower(name), Lower(title))
    \/ \E w \in {Split(title)[k] : k \in 1..Len(Split(title))} :
          Len(w) > 3 /\ IsSubstring(Lower(w), Lower(name))

\* C18: find_torrent_by_name takes an entry exactly when the title matches
\* its name by the rule (title within name, name within title, or a word of
\* the title longer than 3 characters within the name, all lower-cased): the
\* handle it returns is that of the first entry of the polled list that
\* matches, and a poll that returns none saw no entry that matches;
\* "Ubuntu 24.04 Desktop" matches "ubuntu-24.04-desktop-amd64" and "AB" does
\* not match "XY".
C18_NameMatching ==
    /\ NameMatches(TitleUbuntuDesktop, NameUbuntuDesktop)
    /\ ~NameMatches(TitleAB, NameXY)
    /\ (task_hash # "" /\ calls.delete = 0) =>
          \E i \in 1..Len(qb.list) :
              /\ qb.list[i].hash = task_hash
              /\ TitleMatchesName(item.Title, qb.list[i].name)
              /\ \A j \in 1..(i - 1) :
                    ~TitleMatchesName(item.Title, qb.list[j].name)
    /\ (dpc = "locate" /\ calls.locate > 0) =>
          \A i \in 1..Len(qb.list) :
              ~TitleMatchesName(item.Title, qb.list[i].name)

C18_Witness ==
    /\ dpc = "poll"
    /\ item.Title = TitleUbuntu
    /\ qb.list = <<[name |-> NameXY, hash |-> "old1"],
                   [name |-> NameUbuntu, hash |-> "own"]>>
    /\ task_hash = "own"
    /\ ~IsSubstring(Lower(TitleUbuntu), Lower(NameUbuntu))
    /\ ~IsSubstring(Lower(NameUbuntu), Lower(TitleUbuntu))

----------------------------------------------------------------------------
\* Properties of history.json

\* C19: every step of a torrent or direct acquisition leaves the entries
\* history.json held where they were and as they were; it adds at most one
\* entry, at the end.
C19_AppendOnly ==
    [][/\ Len(history') \in {Len(history), Len(history) + 1}
       /\ SubSeq(history', 1, Len(history)) = history]_vars

C19_Witness ==
    /\ dpc = "done"
    /\ Len(history) = 3
    /\ SubSeq(history, 1, 2) \in PastHistories
    /\ history[3] = [title |-> TitleUbuntu, hash |-> "own"]

----------------------------------------------------------------------------
\* Properties of the link validation of download_with_progress

\* the download URL of the task is empty or begins with neither "magnet:"
\* nor "http"
BadUrl ==
    LET url == IF item.MagnetUri # << >> THEN item.MagnetUri ELSE item.Link
    IN \/ Len(url) = 0
       \/ /\ ~(Len(url) >= 7 /\ SubSeq(url, 1, 7) = <<"m", "a", "g", "n", "e", "t", ":">>)
          /\ ~(Len(url) >= 4 /\ SubSeq(url, 1, 4) = <<"h", "t", "t", "p">>)

\* the daemon session was established and the task has ended
EndedAfterLogin ==
    /\ item.DownloadType # "DIRECT"
    /\ dpc = "done"
    /\ ending # "Raised"

\* C20 (as stated): a task whose download URL is empty or begins with
\* neither "magnet:" nor "http" ends Failed(InvalidLink) without a daemon
\* submission call, whatever number of active downloads the daemon reports.
C20_ValidationDecidesFirst ==
    (BadUrl /\ EndedAfterLogin)
        => (ending = "InvalidLink" /\ calls.add = 0)

\* C20 (amended): a task whose download URL is empty or begins with neither
\* "magnet:" nor "http" makes no daemon submission call and adds nothing to
\* the history; admission control decides before validation does: the task
\* ends Abandoned(CapacityExceeded) when the daemon reports at least
\* max_active_downloads active downloads and Failed(InvalidLink) otherwise.
C20_InvalidLinkNeverSubmitted ==
    (BadUrl /\ item.DownloadType # "DIRECT")
        => /\ calls.add = 0
           /\ calls.locate = 0
           /\ history \in OldHistories
           /\ EndedAfterLogin =>
                ending = IF calls.active >= cfg.max_active_downloads
                         THEN "CapacityExceeded"
                         ELSE "InvalidLink"

C20_Witness ==
    /\ BadUrl
    /\ EndedAfterLogin
    /\ item.MagnetUri = FtpUrl
    /\ calls.active = 2 /\ cfg.max_active_downloads = 2
    /\ ending = "CapacityExceeded"

----------------------------------------------------------------------------
\* Properties of the status loop of download_with_progress

\* the task has left the status loop as completed
LeftLoopCompleted ==
    /\ item.DownloadType # "DIRECT"
    /\ dpc \in {"after_loop", "auto_remove", "done"}
    /\ ending = "Completed"

\* C21 (as stated): a task leaves Downloading as completed only on a status
\* observation with progress >= 1.0 and a sub-state of seeding or queued
\* upload (uploading, stalledUP, queuedUP); with progress >= 1.0 in another
\* sub-state it stays in Downloading.
C21_CompletionNeedsSeeding ==
    LeftLoopCompleted
        => (info.progress >= 100
               /\ info.state \in {"uploading", "stalledUP", "queuedUP"})

----------------------------------------------------------------------------
\* Properties of the auto-remove of download_with_progress

\* C22 (as stated): the daemon delete call is made only for a task that
\* reached Completed with auto_remove_completed set, after the history
\* append, and at most once; a task that ended Failed(DaemonError) or
\* Failed(HandleLost), or one with the policy off, makes no delete call.
C22_AutoRemoveScope ==
    /\ calls.delete <= 1
    /\ (dpc = "auto_remove" \/ calls.delete > 0)
          => /\ ending = "Completed"
             /\ cfg.auto_remove_completed
             /\ history \notin OldHistories

\* the daemon still lists the torrent of the task
StillListed == \E i \in 1..Len(qb.list) : qb.list[i].hash = task_hash

\* C23: the delete call, failed or not, ends the task without an exception,
\* leaves its outcome as it was and leaves the entry the task appended as
\* the last one of the history.
C23_BestEffortAutoRemove ==
    /\ [][(dpc = "auto_remove")
            => (dpc' = "done" /\ ending' = ending /\ history' = history)]_vars
    /\ []((calls.delete > 0)
            => /\ dpc = "done"
               /\ ending # "Raised"
               /\ Len(history) >= 1
               /\ history[Len(history)] = [title |-> item.Title, hash |-> task_hash])

C23_Witness ==
    /\ dpc = "done"
    /\ calls.delete = 1
    /\ StillListed
    /\ ending = "Completed"
    /\ info.state = "stalledUP"
    /\ Len(history) = 2

----------------------------------------------------------------------------
\* Properties of the location of the handle

\* the waits of a task that made n polls of which none matched: the 2 time
\* units after the submission, then 1 after every poll
WaitsAfterMisses(n) == <<2>> \o [i \in 1..n |-> 1]

\* C24: the torrent list is polled at most 15 times, with a wait of 1 time
\* unit after every poll that matched nothing; the first poll in which an
\* entry matches ends the polling and gives that entry's handle; after 15
\* polls without a match the task ends Failed(HandleNotFound) without a
\* status poll.
C24_BoundedLocate ==
    /\ []((item.DownloadType # "DIRECT") =>
            /\ calls.locate <= 15
            /\ (dpc = "locate") =>
                  (task_hash = "" /\ sleepLog = WaitsAfterMisses(calls.locate))
            /\ (ending = "HandleNotFound") =>
                  /\ dpc = "done"
                  /\ calls.locate = 15
                  /\ calls.status = 0
                  /\ task_hash = ""
                  /\ sleepLog = WaitsAfterMisses(15)
            /\ (calls.status > 0) => task_hash # "")
    /\ [][(task_hash # "") => (calls'.locate = calls.locate)]_vars
    /\ [][(dpc = "locate" /\ dpc' = "done") => calls.locate = 15]_vars
    /\ [][(dpc = "locate" /\ dpc' = "poll") =>
            /\ sleepLog' = WaitsAfterMisses(calls.locate)
            /\ \E i \in 1..Len(qb'.list) :
                  /\ qb'.list[i].hash = task_hash'
                  /\ TitleMatchesName(item.Title, qb'.list[i].name)]_vars

C24_Witness ==
    /\ dpc = "done"
    /\ ending = "HandleNotFound"
    /\ calls.locate = 15
    /\ item.Title = TitleUbuntu
    /\ Len(qb.list) = 2

----------------------------------------------------------------------------
\* Properties of the order of the states of a torrent task

\* the state of the acquisition state machine the task is in: a task whose
\* status loop ended on an error or a vanished torrent has Failed
TaskState ==
    IF dpc \in {"start", "admission", "validate", "add"} THEN "Submitting"
    ELSE IF dpc = "locate" THEN "Locating"
    ELSE IF dpc = "poll" THEN "Downloading"
    ELSE IF ending = "Completed"
    THEN (IF dpc = "done" THEN "Completed" ELSE "Completing")
    ELSE IF ending = "CapacityExceeded" THEN "Abandoned"
    ELSE "Failed"

StateRank(st) ==
    IF st = "Submitting" THEN 1
    ELSE IF st = "Locating" THEN 2
    ELSE IF st = "Downloading" THEN 3
    ELSE IF st = "Completing" THEN 4
    ELSE 5

\* C25 (as stated): the states of a torrent task are visited in the order
\* Submitting, Locating, Downloading, Completing and then one of Completed,
\* Failed, Abandoned; no state is entered again, a task in a terminal state
\* does nothing more, and at most one daemon submission call is made.
C25_StrictlySequential ==
    [][(item.DownloadType # "DIRECT") =>
          /\ StateRank(TaskState') >= StateRank(TaskState)
          /\ calls'.add <= 1
          /\ (StateRank(TaskState) = 5) =>
                (TaskState' = TaskState /\ history' = history /\ calls' = calls)]_vars

----------------------------------------------------------------------------
\* Properties of the submission to the daemon

----------------------------------------------------------------------------
\* Properties of the preconditions of download_direct_file

\* C27: a direct download whose result has no checksum (absent or empty)
\* fails with MissingChecksum before any resolve call and any HTTP request;
\* the destination is as it was (not created, not changed, not deleted) and
\* nothing is appended to the history.
C27_MissingChecksum ==
    (item.DownloadType = "DIRECT" /\ item.md5 = "") =>
        /\ calls.resolve = 0
        /\ calls.get = 0
        /\ disk = disk0
        /\ wire = << >>
        /\ history \in OldHistories
        /\ dpc \in {"start", "direct", "done"}
        /\ (dpc = "done") => ending = "MissingChecksum"

C27_Witness ==
    /\ item.DownloadType = "DIRECT" /\ item.md5 = ""
    /\ dpc = "done" /\ ending = "MissingChecksum"
    /\ disk0.exists /\ Size(disk0.segs) = 500
    /\ disk = disk0

\* get_download_url has returned, with neither a download_url nor a mirror
NoUrlResolved ==
    /\ download_url_info.download_url = ""
    /\ download_url_info.mirror = ""

\* C28: when get_download_url returns neither a download_url nor a mirror
\* the direct download fails with NoMirror; no HTTP download request is
\* made, the destination is as it was and nothing is appended to the
\* history; and NoMirror is the outcome of that answer only.
C28_NoMirror ==
    /\ NoUrlResolved =>
          /\ dpc = "done"
          /\ ending = "NoMirror"
          /\ calls.resolve = 1
          /\ calls.get = 0
          /\ disk = disk0
          /\ wire = << >>
          /\ history \in OldHistories
    /\ (ending = "NoMirror") => NoUrlResolved
    /\ (calls.get > 0) => (download_url_info # Unbound /\ ~NoUrlResolved)

C28_Witness ==
    /\ dpc = "done" /\ ending = "NoMirror"
    /\ NoUrlResolved
    /\ disk0.exists /\ Size(disk0.segs) = 500
    /\ Len(history) = 1

\* C29: at the end of a tick of the schedule runner every record that was
\* not done and due at its start is marked done, whether or not its search
\* returned a result; a record that is not yet due is neither searched nor
\* changed.
C29_DueRecordConsumed ==
    /\ [][(rpc = "for" /\ rpc' = "tick") =>
            \A i \in 1..Len(sched) :
                (Due(schedFile[i], now) = "yes")
                    => (sched[i].done /\ schedFile'[i].done)]_vars
    /\ [][(rpc = "for" /\ task <= Len(sched) /\ Due(sched[task], now) = "no") =>
            (rpc' = "for" /\ sched' = sched /\ tpc' = tpc /\ spc' = spc)]_vars

\* a done flag of the loaded list differs from the one in schedule.json
DoneFlagChanged ==
    \E i \in 1..Len(sched) : sched[i].done # schedFile[i].done

----------------------------------------------------------------------------
\* Properties of the schedule under the runner and the foreground, of the
\* transport session, of the last results and of repeated downloads

C32_NoSearchFiredTwice ==
    /\ [][(fpc # "remove") =>
            \A i \in 1..Len(schedFile) :
                schedFile[i].done => (i <= Len(schedFile') /\ schedFile'[i].done)]_vars
    /\ [](searches <= Len(schedFile) + (IF fpc = "done" /\ Len(fsched) > Len(schedFile)
                                       THEN 1 ELSE 0))

C35_DirectHasChecksumAndMirror ==
    \A i \in 1..Len(results) :
        (results[i].download_type = "direct") =>
            /\ results[i].info_hash # ""
            /\ \E k \in 1..Len(items) :
                  /\ items[k].e_mirror # ""
                  /\ results[i].download_url = items[k].e_mirror

\* C35 (amended): the SearchResult of download kind direct that the loop
\* appends for a record has the info_hash of the record as it is, empty or
\* not, and as its download URL the first of the record's mirror, magnet_uri
\* and link that is not empty.
C35_DirectTakesWhatTheRecordHas ==
    [][(spc = "loop" /\ Len(results') = Len(results) + 1) =>
          LET raw == items[idx]
              r == results'[Len(results')]
          IN (r.download_type = "direct") =>
                /\ r.info_hash = raw.info_hash
                /\ r.download_url =
                      (IF raw.e_mirror # "" THEN raw.e_mirror
                       ELSE IF raw.magnet_uri # "" THEN raw.magnet_uri
                       ELSE raw.link)]_vars

C35_Witness ==
    /\ spc = "done"
    /\ Len(results) = 2
    /\ results[1].download_type = "direct"
    /\ results[1].info_hash = ""
    /\ results[1].download_url = "magnet:?xt=g"
    /\ results[2].download_type = "direct"
    /\ results[2].download_url = "https://mirror/x.pdf"

----------------------------------------------------------------------------
\* The search commands, last.json and download

\* the commands that write last.json after a search
SearchCommands ==
    {"search", "search_movies", "quick_search", "browse_category", "browse"}

\* download: the entry of last.json as handed to download_with_progress,
\* with the key DownloadType added; the entry has the keys of a
\* SearchResult (title, download_url, ...) and none of MagnetUri, Link and
\* Title; md5 is what "extra" of the entry holds
ItemOfLast(d, md5) ==
    [DownloadType |-> IF d.download_type = "direct" THEN "DIRECT" ELSE "TORRENT",
     MagnetUri |-> << >>, Link |-> << >>, Title |-> << >>,
     title |-> d.title, md5 |-> md5, source |-> ""]

\* the end of a search command: without results it returns; search and
\* browse replace the DownloadType of every r.__dict__ by its value and save
\* the list; the other commands hand the dicts with the enum member in them
\* to save_json, where json.dumps raises TypeError before anything is
\* written
SaveLast ==
    /\ fpc = "start"
    /\ IF results = << >>
       THEN fpc' = "done" /\ UNCHANGED last
       ELSE IF cmd.name \in {"search", "browse"}
       THEN fpc' = "saved" /\ last' = results
       ELSE fpc' = "raised" /\ UNCHANGED last
    /\ UNCHANGED <<fsched, cmd>>
    /\ UNCHANGED <<history, sleepLog>>
    /\ UNCHANGED transportVars
    /\ UNCHANGED searchVars
    /\ UNCHANGED torrentVars
    /\ UNCHANGED directVars
    /\ UNCHANGED runnerVars
    /\ UNCHANGED monitorVars

\* download(index), run after the search command: an index outside
\* 1..len(results) returns, else download_with_progress(item)
Download ==
    /\ fpc \in {"saved", "raised", "done"}
    /\ fpc' = "download"
    /\ \E index \in 0..(MaxItems + 1) :
         /\ cmd' = [cmd EXCEPT !.index = index]
         /\ IF 1 <= index /\ index <= Len(last)
            THEN /\ \E md5 \in {"", "abc123"} : item' = ItemOfLast(last[index], md5)
                 /\ dpc' = "start"
                 /\ UNCHANGED ending
            ELSE /\ Return("InvalidIndex")
                 /\ UNCHANGED item
    /\ UNCHANGED <<cfg, qb, calls, task_hash, info, finished>>
    /\ UNCHANGED <<fsched, last>>
    /\ UNCHANGED <<history, sleepLog>>
    /\ UNCHANGED transportVars
    /\ UNCHANGED searchVars
    /\ UNCHANGED directVars
    /\ UNCHANGED runnerVars
    /\ UNCHANGED monitorVars

\* the search of the command has returned its results
InitLast ==
    /\ tpc = "done" /\ script = <<Http(200)>> /\ response = Http(200)
    /\ attempts = 1 /\ outcome = [kind |-> "ok", carries |-> "response"]
    /\ session = NewSession
    /\ spc = "done" /\ op = "search" /\ items \in ResultArrays
    /\ idx = Len(items) + 1 /\ results = MappedWellFormed(items)
    /\ raised = FALSE
    /\ TorrentIdle
    /\ DirectIdle
    /\ history = << >>
    /\ sleepLog = << >>
    /\ RunnerIdle
    /\ fpc = "start" /\ fsched = << >>
    /\ cmd \in [name : SearchCommands, index : {0}]
    /\ last = << >>
    /\ MonitorIdle

NextLast ==
    \/ SaveLast
    \/ Download
    \/ Dispatch
    \/ Admission
    \/ Validate
    \/ CheckMd5

SpecLast == InitLast /\ [][NextLast]_vars

\* C36 (as stated): after a search command that returned n >= 1 results
\* last.json holds the n results in order, the download kind as its string
\* value; download(i) with 1 <= i <= n starts the acquisition of the i-th
\* result with its title, download URL and kind, and the acquisition is not
\* turned down for want of a link; download(i) with another i starts none.
C36_LastResultsRoundTrip ==
    /\ [][(fpc = "start" /\ fpc' # "start" /\ results # << >>) =>
            /\ Len(last') = Len(results)
            /\ \A i \in 1..Len(results) :
                  /\ last'[i].title = results[i].title
                  /\ last'[i].download_url = results[i].download_url
                  /\ last'[i].download_type = results[i].download_type]_vars
    /\ [][(fpc # "download" /\ fpc' = "download") =>
            IF 1 <= cmd'.index /\ cmd'.index <= Len(last)
            THEN /\ dpc' = "start"
                 /\ item'.title = last[cmd'.index].title
                 /\ (item'.DownloadType = "DIRECT")
                        <=> (last[cmd'.index].download_type = "direct")
            ELSE dpc' = "done"]_vars
    /\ []((fpc = "download" /\ cmd.index >= 1 /\ cmd.index <= Len(last)
            /\ last[cmd.index].download_url # "")
          => ending # "InvalidLink")

\* C37 (as stated): when the destination holds N > 0 bytes and the mirror
\* answers the ranged request with the whole content (200), the file at the
\* end of the download is the whole content, the N old bytes not in front.
C37_RangeIgnoredStartsOver ==
    (/\ item.DownloadType = "DIRECT"
     /\ ~server.ranged
     /\ disk0.exists /\ Size(disk0.segs) > 0
     /\ dpc = "done" /\ ending = "Success")
        => (disk.exists /\ disk.segs = WholeContent)

\* C38 (as stated): when the destination holds the complete content at the
\* start of a direct download, the file exists with the same content when
\* the download ends, whatever the mirror answers to the ranged request
\* that starts at the end of the file.
C38_FinishedFileSurvives ==
    (/\ item.DownloadType = "DIRECT"
     /\ disk0.exists /\ disk0.segs = WholeContent
     /\ dpc = "done")
        => (disk.exists /\ disk.segs = WholeContent)

\* C39 (as stated): the handle resolved in Locating is the handle of the
\* torrent that this task submitted; an older entry of the daemon's list is
\* never tracked or recorded in the history, even when its name matches the
\* title.
C39_HandleIdentity ==
    /\ task_hash \in {"", "own"}
    /\ \A i \in 1..Len(history) : history[i].hash \in {"old0", "own"}

\* the daemon has reported, for the resolved handle, what ends the
\* download: no entry, the sub-state error, or progress >= 1.0 in a
\* sub-state of seeding or queued upload
EndReported ==
    /\ item.DownloadType # "DIRECT"
    /\ \/ ending = "HandleLost"
       \/ info.state = "error"
       \/ info.progress >= 100 /\ info.state \in {"uploading", "stalledUP", "queuedUP"}

\* C40 (as stated): once the daemon has reported the end of the download
\* the task leaves Downloading and reaches a terminal state; while the
\* daemon has reported none of it the task stays in Downloading, however
\* many polls it takes.
C40_DownloadingEndsWithTheDaemon ==
    /\ [](EndReported => <>(dpc = "done"))
    /\ [][(dpc = "poll" /\ dpc' # "poll") => EndReported']_vars

\* the half of C40 that holds: the end, once reported, is acted upon
C40_EndIsActedUpon == [](EndReported => <>(dpc = "done"))

====
